---------------------------- MODULE Spec2Model ----------------------------
(***************************************************************************)
(* The move-search core of src/src/lib/ai.ts (evaluateBoard, minimax,     *)
(* findTopMoves, findBestMove) as a state machine over a heap of Chess    *)
(* objects, together with the part of the chess.js rules engine the core  *)
(* calls (moves, move, fen, new Chess(fen), isGameOver, turn, board), and *)
(* three objects of the interface around it: the useChessGame hook        *)
(* (src/src/hooks/useChessGame.ts), the AudioStreamer (src/src/lib/ai.ts) *)
(* and the GenAILiveClient (src/unnamed/part_003).                        *)
(***************************************************************************)
EXTENDS Integers, Sequences, FiniteSets, TLC

VARIABLES heap, stack, root, pc, result, memo, hook, streamer, client

vars == <<heap, stack, root, pc, result, memo, hook, streamer, client>>

(***************************************************************************)
(* Bounds of the model.                                                    *)
(***************************************************************************)
\* largest search depth a caller passes
MaxDepth == 3
\* largest count a caller passes to findTopMoves
MaxCount == 3

(***************************************************************************)
(* Numbers: JS Infinity is a value above every evaluation.                 *)
(***************************************************************************)
Infinity == 1000000

Max(a, b) == IF a >= b THEN a ELSE b
Min(a, b) == IF a <= b THEN a ELSE b

(***************************************************************************)
(* Pieces and boards.  A board is the 8x8 array game.board() returns,      *)
(* flattened: index row*8+col, row 0 is rank 8, col 0 is file a.           *)
(***************************************************************************)
Null == [type |-> "-", color |-> "-"]

Pc(color, type) == [type |-> type, color |-> color]

Sq(row, col) == row * 8 + col
RowOf(s) == s \div 8
ColOf(s) == s % 8
OnBoard(row, col) == row >= 0 /\ row <= 7 /\ col >= 0 /\ col <= 7

swapColor(c) == IF c = "w" THEN "b" ELSE "w"

PIECE_VALUES == [p |-> 100, n |-> 320, b |-> 330, r |-> 500, q |-> 900, k |-> 20000]

PAWN_PST == <<
  <<0,  0,  0,  0,  0,  0,  0,  0>>,
  <<50, 50, 50, 50, 50, 50, 50, 50>>,
  <<10, 10, 20, 30, 30, 20, 10, 10>>,
  <<5,  5, 10, 25, 25, 10,  5,  5>>,
  <<0,  0,  0, 20, 20,  0,  0,  0>>,
  <<5, -5,-10,  0,  0,-10, -5,  5>>,
  <<5, 10, 10,-20,-20, 10, 10,  5>>,
  <<0,  0,  0,  0,  0,  0,  0,  0>> >>

KNIGHT_PST == <<
  <<-50,-40,-30,-30,-30,-30,-40,-50>>,
  <<-40,-20,  0,  0,  0,  0,-20,-40>>,
  <<-30,  0, 10, 15, 15, 10,  0,-30>>,
  <<-30,  5, 15, 20, 20, 15,  5,-30>>,
  <<-30,  0, 15, 20, 20, 15,  0,-30>>,
  <<-30,  5, 10, 15, 15, 10,  5,-30>>,
  <<-40,-20,  0,  5,  5,  0,-20,-40>>,
  <<-50,-40,-30,-30,-30,-30,-40,-50>> >>

BISHOP_PST == <<
  <<-20,-10,-10,-10,-10,-10,-10,-20>>,
  <<-10,  0,  0,  0,  0,  0,  0,-10>>,
  <<-10,  0,  5, 10, 10,  5,  0,-10>>,
  <<-10,  5,  5, 10, 10,  5,  5,-10>>,
  <<-10,  0, 10, 10, 10, 10,  0,-10>>,
  <<-10, 10, 10, 10, 10, 10, 10,-10>>,
  <<-10,  5,  0,  0,  0,  0,  5,-10>>,
  <<-20,-10,-10,-10,-10,-10,-10,-20>> >>

ROOK_PST == <<
  <<0,  0,  0,  0,  0,  0,  0,  0>>,
  <<5, 10, 10, 10, 10, 10, 10,  5>>,
  <<-5,  0,  0,  0,  0,  0,  0, -5>>,
  <<-5,  0,  0,  0,  0,  0,  0, -5>>,
  <<-5,  0,  0,  0,  0,  0,  0, -5>>,
  <<-5,  0,  0,  0,  0,  0,  0, -5>>,
  <<-5,  0,  0,  0,  0,  0,  0, -5>>,
  <<0,  0,  0,  5,  5,  0,  0,  0>> >>

QUEEN_PST == <<
  <<-20,-10,-10, -5, -5,-10,-10,-20>>,
  <<-10,  0,  0,  0,  0,  0,  0,-10>>,
  <<-10,  0,  5,  5,  5,  5,  0,-10>>,
  <<-5,   0,  5,  5,  5,  5,  0, -5>>,
  <<0,    0,  5,  5,  5,  5,  0, -5>>,
  <<-10,  5,  5,  5,  5,  5,  0,-10>>,
  <<-10,  0,  5,  0,  0,  0,  0,-10>>,
  <<-20,-10,-10, -5, -5,-10,-10,-20>> >>

KING_PST == <<
  <<-30,-40,-40,-50,-50,-40,-40,-30>>,
  <<-30,-40,-40,-50,-50,-40,-40,-30>>,
  <<-30,-40,-40,-50,-50,-40,-40,-30>>,
  <<-30,-40,-40,-50,-50,-40,-40,-30>>,
  <<-20,-30,-30,-40,-40,-30,-30,-20>>,
  <<-10,-20,-20,-20,-20,-20,-20,-10>>,
  <<20, 20,  0,  0,  0,  0, 20, 20>>,
  <<20, 30, 10,  0,  0, 10, 30, 20>> >>

PSTS == [p |-> PAWN_PST, n |-> KNIGHT_PST, b |-> BISHOP_PST,
         r |-> ROOK_PST, q |-> QUEEN_PST, k |-> KING_PST]

\* faulty variants of the table lookup: Black reading the table unmirrored,
\* and Black's table value negated instead of mirrored
positionValueUnmirrored(piece, row, col) ==
  PSTS[piece.type][row + 1][col + 1]

positionValueNegated(piece, row, col) ==
  IF piece.color = "w"
    THEN PSTS[piece.type][row + 1][col + 1]
    ELSE 0 - PSTS[piece.type][(7 - row) + 1][col + 1]

(***************************************************************************)
(* evaluateBoard: the two nested loops over board[row][col], accumulating  *)
(* totalValue.                                                             *)
(***************************************************************************)
positionValue(piece, row, col) ==
  IF piece.color = "w"
    THEN PSTS[piece.type][row + 1][col + 1]
    ELSE PSTS[piece.type][(7 - row) + 1][col + 1]

\* a faulty variant of the piece score: Black's pieces counted by material alone
pieceScoreBlackMaterial(piece, row, col) ==
  IF piece.color = "w"
    THEN PIECE_VALUES[piece.type] + positionValue(piece, row, col)
    ELSE PIECE_VALUES[piece.type]

pieceScore(piece, row, col) ==
  PIECE_VALUES[piece.type] + positionValue(piece, row, col)

RECURSIVE evalLoop(_, _, _)
evalLoop(board, i, totalValue) ==
  IF i = 64 THEN totalValue
  ELSE LET piece == board[i] IN
       IF piece = Null THEN evalLoop(board, i + 1, totalValue)
       ELSE IF piece.color = "w"
         THEN evalLoop(board, i + 1, totalValue + pieceScore(piece, RowOf(i), ColOf(i)))
         ELSE evalLoop(board, i + 1, totalValue - pieceScore(piece, RowOf(i), ColOf(i)))

evaluateBoard(game) == evalLoop(game.board, 0, 0)

(***************************************************************************)
(* The rules engine (chess.js) as the core uses it.  A Chess object holds  *)
(* the six FEN fields and its own move history.                            *)
(***************************************************************************)
NoSquare == 0 - 1

\* a verbose Move: captured / promotion are "-" when the field is absent
Mv(color, from, to, piece, captured, promotion, flags) ==
  [color |-> color, from |-> from, to |-> to, piece |-> piece,
   captured |-> captured, promotion |-> promotion, flags |-> flags]

NoMove == Mv("-", NoSquare, NoSquare, "-", "-", "-", "-")

\* chess.js PROMOTIONS
PROMOTIONS == <<"n", "b", "r", "q">>

\* chess.js PIECE_OFFSETS as (row, col) steps, in the library's order
KNIGHT_OFFSETS == << <<-1, -2>>, <<-2, -1>>, <<-2, 1>>, <<-1, 2>>,
                     <<1, 2>>, <<2, 1>>, <<2, -1>>, <<1, -2>> >>
BISHOP_OFFSETS == << <<-1, -1>>, <<-1, 1>>, <<1, 1>>, <<1, -1>> >>
ROOK_OFFSETS == << <<-1, 0>>, <<0, 1>>, <<1, 0>>, <<0, -1>> >>
QUEEN_OFFSETS == << <<-1, -1>>, <<-1, 0>>, <<-1, 1>>, <<0, 1>>,
                    <<1, 1>>, <<1, 0>>, <<1, -1>>, <<0, -1>> >>

PIECE_OFFSETS == [n |-> KNIGHT_OFFSETS, b |-> BISHOP_OFFSETS, r |-> ROOK_OFFSETS,
                  q |-> QUEEN_OFFSETS, k |-> QUEEN_OFFSETS]

\* the first piece met from (row, col), exclusive, in direction (dr, dc)
RECURSIVE firstPiece(_, _, _, _, _)
firstPiece(board, row, col, dr, dc) ==
  IF ~OnBoard(row + dr, col + dc) THEN Null
  ELSE IF board[Sq(row + dr, col + dc)] # Null THEN board[Sq(row + dr, col + dc)]
  ELSE firstPiece(board, row + dr, col + dc, dr, dc)

\* chess.js _attacked(color, square): some piece of `color` attacks `square`
attacked(board, color, square) ==
  LET row == RowOf(square)
      col == ColOf(square)
      pawnRow == IF color = "w" THEN row + 1 ELSE row - 1
  IN \/ \E dc \in {-1, 1} :
          OnBoard(pawnRow, col + dc) /\ board[Sq(pawnRow, col + dc)] = Pc(color, "p")
     \/ \E i \in 1..8 :
          LET r == row + KNIGHT_OFFSETS[i][1]
              c == col + KNIGHT_OFFSETS[i][2]
          IN OnBoard(r, c) /\ board[Sq(r, c)] = Pc(color, "n")
     \/ \E i \in 1..8 :
          LET r == row + QUEEN_OFFSETS[i][1]
              c == col + QUEEN_OFFSETS[i][2]
          IN OnBoard(r, c) /\ board[Sq(r, c)] = Pc(color, "k")
     \/ \E i \in 1..4 :
          firstPiece(board, row, col, ROOK_OFFSETS[i][1], ROOK_OFFSETS[i][2])
            \in {Pc(color, "r"), Pc(color, "q")}
     \/ \E i \in 1..4 :
          firstPiece(board, row, col, BISHOP_OFFSETS[i][1], BISHOP_OFFSETS[i][2])
            \in {Pc(color, "b"), Pc(color, "q")}

kingSquare(board, color) ==
  IF \E s \in 0..63 : board[s] = Pc(color, "k")
    THEN CHOOSE s \in 0..63 : board[s] = Pc(color, "k")
    ELSE NoSquare

isKingAttacked(board, color) ==
  /\ kingSquare(board, color) # NoSquare
  /\ attacked(board, swapColor(color), kingSquare(board, color))

\* chess.js addMove: a pawn reaching the last rank yields one move per promotion
addMove(color, from, to, piece, captured, flags) ==
  IF piece = "p" /\ (RowOf(to) = 0 \/ RowOf(to) = 7)
    THEN <<Mv(color, from, to, piece, captured, PROMOTIONS[1], flags \o "p"),
           Mv(color, from, to, piece, captured, PROMOTIONS[2], flags \o "p"),
           Mv(color, from, to, piece, captured, PROMOTIONS[3], flags \o "p"),
           Mv(color, from, to, piece, captured, PROMOTIONS[4], flags \o "p")>>
    ELSE <<Mv(color, from, to, piece, captured, "-", flags)>>

pawnMoves(game, from) ==
  LET us == game.turn
      them == swapColor(us)
      row == RowOf(from)
      col == ColOf(from)
      dr == IF us = "w" THEN 0 - 1 ELSE 1
      secondRank == IF us = "w" THEN 6 ELSE 1
      capCols == IF us = "w" THEN <<col - 1, col + 1>> ELSE <<col + 1, col - 1>>
      single == IF OnBoard(row + dr, col) /\ game.board[Sq(row + dr, col)] = Null
                  THEN addMove(us, from, Sq(row + dr, col), "p", "-", "n")
                  ELSE <<>>
      double == IF /\ single # <<>>
                   /\ row = secondRank
                   /\ game.board[Sq(row + 2 * dr, col)] = Null
                  THEN addMove(us, from, Sq(row + 2 * dr, col), "p", "-", "b")
                  ELSE <<>>
      capture(c) ==
        IF ~OnBoard(row + dr, c) THEN <<>>
        ELSE IF game.board[Sq(row + dr, c)].color = them
          THEN addMove(us, from, Sq(row + dr, c), "p", game.board[Sq(row + dr, c)].type, "c")
        ELSE IF Sq(row + dr, c) = game.epSquare
          THEN addMove(us, from, Sq(row + dr, c), "p", "p", "e")
        ELSE <<>>
  IN single \o double \o capture(capCols[1]) \o capture(capCols[2])

\* the moves of a knight, king or slider along one offset, from (row, col) on
RECURSIVE offsetMoves(_, _, _, _, _, _)
offsetMoves(game, from, row, col, dr, dc) ==
  LET us == game.turn
      type == game.board[from].type
      r == row + dr
      c == col + dc
  IN IF ~OnBoard(r, c) THEN <<>>
     ELSE IF game.board[Sq(r, c)] = Null
       THEN addMove(us, from, Sq(r, c), type, "-", "n")
            \o (IF type = "n" \/ type = "k" THEN <<>>
                ELSE offsetMoves(game, from, r, c, dr, dc))
     ELSE IF game.board[Sq(r, c)].color = us THEN <<>>
     ELSE addMove(us, from, Sq(r, c), type, game.board[Sq(r, c)].type, "c")

RECURSIVE pieceMoves(_, _, _)
pieceMoves(game, from, j) ==
  LET offs == PIECE_OFFSETS[game.board[from].type] IN
  IF j > Len(offs) THEN <<>>
  ELSE offsetMoves(game, from, RowOf(from), ColOf(from), offs[j][1], offs[j][2])
       \o pieceMoves(game, from, j + 1)

\* the board scan of chess.js _moves, from a8 to h1
RECURSIVE scanMoves(_, _)
scanMoves(game, from) ==
  IF from = 64 THEN <<>>
  ELSE IF game.board[from].color # game.turn THEN scanMoves(game, from + 1)
  ELSE IF game.board[from].type = "p"
    THEN pawnMoves(game, from) \o scanMoves(game, from + 1)
  ELSE pieceMoves(game, from, 1) \o scanMoves(game, from + 1)

castlingMoves(game) ==
  LET us == game.turn
      them == swapColor(us)
      from == kingSquare(game.board, us)
      home == IF us = "w" THEN 60 ELSE 4
      kside == IF /\ (IF us = "w" THEN "K" ELSE "k") \in game.castling
                  /\ from = home
                  /\ game.board[from + 1] = Null
                  /\ game.board[from + 2] = Null
                  /\ ~attacked(game.board, them, from)
                  /\ ~attacked(game.board, them, from + 1)
                  /\ ~attacked(game.board, them, from + 2)
                 THEN <<Mv(us, from, from + 2, "k", "-", "-", "k")>>
                 ELSE <<>>
      qside == IF /\ (IF us = "w" THEN "Q" ELSE "q") \in game.castling
                  /\ from = home
                  /\ game.board[from - 1] = Null
                  /\ game.board[from - 2] = Null
                  /\ game.board[from - 3] = Null
                  /\ ~attacked(game.board, them, from)
                  /\ ~attacked(game.board, them, from - 1)
                  /\ ~attacked(game.board, them, from - 2)
                 THEN <<Mv(us, from, from - 2, "k", "-", "-", "q")>>
                 ELSE <<>>
  IN kside \o qside

\* the board after chess.js _makeMove
boardAfter(board, m) ==
  LET placed == IF m.promotion # "-" THEN Pc(m.color, m.promotion) ELSE board[m.from]
      epVictim == IF m.flags = "e"
                    THEN (IF m.color = "w" THEN m.to + 8 ELSE m.to - 8)
                    ELSE NoSquare
      rookFrom == IF m.flags = "k" THEN m.to + 1
                  ELSE IF m.flags = "q" THEN m.to - 2 ELSE NoSquare
      rookTo == IF m.flags = "k" THEN m.to - 1
                ELSE IF m.flags = "q" THEN m.to + 1 ELSE NoSquare
  IN [s \in 0..63 |->
        IF s = m.to THEN placed
        ELSE IF s = m.from \/ s = epVictim \/ s = rookFrom THEN Null
        ELSE IF s = rookTo THEN Pc(m.color, "r")
        ELSE board[s]]

\* castling rights after a move: lost by king moves, rook moves and rook captures
castlingAfter(castling, m) ==
  LET lostByKing == IF m.piece = "k"
                      THEN (IF m.color = "w" THEN {"K", "Q"} ELSE {"k", "q"})
                      ELSE {}
      corner(s) == IF s = 63 THEN {"K"} ELSE IF s = 56 THEN {"Q"}
                   ELSE IF s = 7 THEN {"k"} ELSE IF s = 0 THEN {"q"} ELSE {}
  IN castling \ (lostByKing \cup corner(m.from) \cup corner(m.to))

\* chess.js move(m) on a Chess object: the object after the move
makeMove(game, m) ==
  [board |-> boardAfter(game.board, m),
   turn |-> swapColor(game.turn),
   castling |-> castlingAfter(game.castling, m),
   epSquare |-> IF m.flags = "b"
                  THEN (IF m.color = "w" THEN m.to + 8 ELSE m.to - 8)
                  ELSE NoSquare,
   halfMoves |-> IF m.piece = "p" \/ m.captured # "-" THEN 0 ELSE game.halfMoves + 1,
   moveNumber |-> IF m.color = "b" THEN game.moveNumber + 1 ELSE game.moveNumber,
   history |-> Append(game.history, m)]

\* chess.js moves({verbose: true}): the pseudo-legal moves that leave the
\* mover's king unattacked, in generation order
isLegal(game, m) == ~isKingAttacked(boardAfter(game.board, m), game.turn)

RECURSIVE keepLegal(_, _, _)
keepLegal(game, pseudo, i) ==
  IF i > Len(pseudo) THEN <<>>
  ELSE IF isLegal(game, pseudo[i])
    THEN <<pseudo[i]>> \o keepLegal(game, pseudo, i + 1)
    ELSE keepLegal(game, pseudo, i + 1)

legalMoves(game) ==
  keepLegal(game, scanMoves(game, 0) \o castlingMoves(game), 1)

\* chess.js fen(): the six FEN fields, and nothing of the history
fen(game) ==
  [board |-> game.board, turn |-> game.turn, castling |-> game.castling,
   epSquare |-> game.epSquare, halfMoves |-> game.halfMoves,
   moveNumber |-> game.moveNumber]

\* new Chess(fen): a fresh object on the position, with an empty history
Chess(f) ==
  [board |-> f.board, turn |-> f.turn, castling |-> f.castling,
   epSquare |-> f.epSquare, halfMoves |-> f.halfMoves,
   moveNumber |-> f.moveNumber, history |-> <<>>]

isCheck(game) == isKingAttacked(game.board, game.turn)

piecesOn(board) == {s \in 0..63 : board[s] # Null}

\* chess.js isInsufficientMaterial: K v K, K v K+minor, bishops of one square colour
isInsufficientMaterial(game) ==
  LET occ == piecesOn(game.board)
      bishops == {s \in occ : game.board[s].type = "b"}
      knights == {s \in occ : game.board[s].type = "n"}
      n == Cardinality(occ)
  IN \/ n = 2
     \/ n = 3 /\ (Cardinality(bishops) = 1 \/ Cardinality(knights) = 1)
     \/ /\ n = Cardinality(bishops) + 2
        /\ \/ \A s \in bishops : (RowOf(s) + ColOf(s)) % 2 = 0
           \/ \A s \in bishops : (RowOf(s) + ColOf(s)) % 2 = 1

\* chess.js isThreefoldRepetition counts the positions the object itself has
\* gone through.  A third occurrence of a position needs eight moves on the one
\* object; the objects the core asks hold at most one (each is built from a FEN
\* string and moved once), so the answer is FALSE on all of them.
isThreefoldRepetition(game) ==
  FALSE

isGameOver(game) ==
  \/ legalMoves(game) = <<>>
  \/ game.halfMoves >= 100
  \/ isInsufficientMaterial(game)
  \/ isThreefoldRepetition(game)

(***************************************************************************)
(* Array.prototype.sort with a comparator.  With a consistent comparator   *)
(* the language fixes the result (a stable sort).  The comparator of       *)
(* findBestMove answers 1 for two moves of the same kind in either order,  *)
(* so the order of such moves is left to the engine: the result of V8's    *)
(* binary insertion sort (arrays this short are one TimSort run) and the   *)
(* result of a top-down merge sort are both modelled.                      *)
(***************************************************************************)
SortEngines == {"v8", "merge"}

isCapture(m) == m.captured # "-"

\* a faulty variant of the comparators: the two ranking orders exchanged
compareSwapped(kind, a, b) ==
  CASE kind = "minimax" ->
         IF isCapture(a) /\ ~isCapture(b) THEN 0 - 1
         ELSE IF ~isCapture(a) /\ isCapture(b) THEN 1
         ELSE 0
    [] kind = "root" ->
         IF (IF isCapture(a) THEN 1 ELSE 0) > (IF isCapture(b) THEN 1 ELSE 0)
           THEN 0 - 1 ELSE 1
    [] kind = "desc" -> a.evaluation - b.evaluation
    [] kind = "asc" -> b.evaluation - a.evaluation

\* a faulty variant of the comparators: the root comparison turned round
compareRootCapturesLast(kind, a, b) ==
  CASE kind = "minimax" ->
         IF isCapture(a) /\ ~isCapture(b) THEN 0 - 1
         ELSE IF ~isCapture(a) /\ isCapture(b) THEN 1
         ELSE 0
    [] kind = "root" ->
         IF (IF isCapture(a) THEN 1 ELSE 0) < (IF isCapture(b) THEN 1 ELSE 0)
           THEN 0 - 1 ELSE 1
    [] kind = "desc" -> b.evaluation - a.evaluation
    [] kind = "asc" -> a.evaluation - b.evaluation

\* a faulty variant of the comparators: minimax puts the captures last
compareCapturesLast(kind, a, b) ==
  CASE kind = "minimax" ->
         IF isCapture(a) /\ ~isCapture(b) THEN 1
         ELSE IF ~isCapture(a) /\ isCapture(b) THEN 0 - 1
         ELSE 0
    [] kind = "root" ->
         IF (IF isCapture(a) THEN 1 ELSE 0) > (IF isCapture(b) THEN 1 ELSE 0)
           THEN 0 - 1 ELSE 1
    [] kind = "desc" -> b.evaluation - a.evaluation
    [] kind = "asc" -> a.evaluation - b.evaluation

\* the three comparators of ai.ts
compare(kind, a, b) ==
  CASE kind = "minimax" ->
         IF isCapture(a) /\ ~isCapture(b) THEN 0 - 1
         ELSE IF ~isCapture(a) /\ isCapture(b) THEN 1
         ELSE 0
    [] kind = "root" ->
         IF (IF isCapture(a) THEN 1 ELSE 0) > (IF isCapture(b) THEN 1 ELSE 0)
           THEN 0 - 1 ELSE 1
    [] kind = "desc" -> b.evaluation - a.evaluation
    [] kind = "asc" -> a.evaluation - b.evaluation

Reverse(s) == [i \in 1..Len(s) |-> s[Len(s) + 1 - i]]

\* TimSort's CountAndMakeRun: the length of the run that starts the array
RECURSIVE runLength(_, _, _, _)
runLength(a, kind, idx, descending) ==
  IF idx > Len(a) THEN Len(a)
  ELSE IF descending /\ compare(kind, a[idx], a[idx - 1]) >= 0 THEN idx - 1
  ELSE IF ~descending /\ compare(kind, a[idx], a[idx - 1]) < 0 THEN idx - 1
  ELSE runLength(a, kind, idx + 1, descending)

RECURSIVE binarySearch(_, _, _, _, _)
binarySearch(sorted, kind, pivot, left, right) ==
  IF left >= right THEN left
  ELSE LET mid == left + ((right - left) \div 2) IN
       IF compare(kind, pivot, sorted[mid + 1]) < 0
         THEN binarySearch(sorted, kind, pivot, left, mid)
         ELSE binarySearch(sorted, kind, pivot, mid + 1, right)

RECURSIVE binaryInsertion(_, _, _, _)
binaryInsertion(sorted, a, kind, start) ==
  IF start > Len(a) THEN sorted
  ELSE LET at == binarySearch(sorted, kind, a[start], 0, Len(sorted)) IN
       binaryInsertion(SubSeq(sorted, 1, at) \o <<a[start]>>
                         \o SubSeq(sorted, at + 1, Len(sorted)),
                       a, kind, start + 1)

v8Sort(a, kind) ==
  IF Len(a) < 2 THEN a
  ELSE LET descending == compare(kind, a[2], a[1]) < 0
           run == runLength(a, kind, 3, descending)
           first == IF descending THEN Reverse(SubSeq(a, 1, run)) ELSE SubSeq(a, 1, run)
       IN binaryInsertion(first, a, kind, run + 1)

RECURSIVE merge(_, _, _)
merge(l, r, kind) ==
  IF l = <<>> THEN r
  ELSE IF r = <<>> THEN l
  ELSE IF compare(kind, l[1], r[1]) <= 0
    THEN <<l[1]>> \o merge(Tail(l), r, kind)
    ELSE <<r[1]>> \o merge(l, Tail(r), kind)

RECURSIVE mergeSort(_, _)
mergeSort(a, kind) ==
  IF Len(a) < 2 THEN a
  ELSE LET mid == Len(a) \div 2 IN
       merge(mergeSort(SubSeq(a, 1, mid), kind),
             mergeSort(SubSeq(a, mid + 1, Len(a)), kind), kind)

arraySort(a, kind, engine) ==
  IF engine = "v8" THEN v8Sort(a, kind) ELSE mergeSort(a, kind)

(***************************************************************************)
(* The sample positions the caller holds.                                  *)
(***************************************************************************)
\* the square of file f (1 = a) and rank r
At(f, r) == Sq(8 - r, f - 1)

\* a Chess object built from a FEN string: placement, side to move, castling
position(placed, turn, castling) ==
  Chess([board |-> [s \in 0..63 |->
                     IF \E x \in placed : x[1] = s
                       THEN LET x == CHOOSE y \in placed : y[1] = s IN Pc(x[2], x[3])
                       ELSE Null],
         turn |-> turn, castling |-> castling, epSquare |-> NoSquare,
         halfMoves |-> 0, moveNumber |-> 1])

\* pawns facing each other: either side may push or capture
PawnDuel == position({<<At(1, 1), "w", "k">>, <<At(4, 4), "w", "p">>,
                      <<At(8, 8), "b", "k">>, <<At(5, 5), "b", "p">>}, "w", {})
\* White mates with Nf7, or takes the last pawn and leaves king and knight
\* against king
KnightMate == position({<<At(6, 8), "w", "k">>, <<At(7, 5), "w", "n">>,
                        <<At(8, 8), "b", "k">>, <<At(8, 7), "b", "p">>}, "w", {})
\* the same with Black to move: the cornered king leaves two pawn moves
Cornered == position({<<At(6, 8), "w", "k">>, <<At(7, 5), "w", "n">>,
                      <<At(8, 8), "b", "k">>, <<At(8, 7), "b", "p">>}, "b", {})
\* Black is checkmated
Checkmated == position({<<At(6, 8), "w", "k">>, <<At(6, 7), "w", "n">>,
                        <<At(8, 8), "b", "k">>, <<At(8, 7), "b", "p">>}, "b", {})
\* Black is stalemated
Stalemated == position({<<At(6, 7), "w", "k">>, <<At(7, 6), "w", "q">>,
                        <<At(8, 8), "b", "k">>}, "b", {})
\* White is stalemated
StalematedWhite == position({<<At(6, 2), "b", "k">>, <<At(7, 3), "b", "q">>,
                             <<At(8, 1), "w", "k">>}, "w", {})
\* Black may push the d pawn two squares past the white e pawn
EnPassant == position({<<At(1, 1), "w", "k">>, <<At(5, 5), "w", "p">>,
                       <<At(8, 8), "b", "k">>, <<At(4, 7), "b", "p">>}, "b", {})
\* the same game after Black has played d7-d5 on the caller's own object
EnPassantPlayed ==
  makeMove(EnPassant, Mv("b", At(4, 7), At(4, 5), "p", "-", "-", "b"))
\* a black pawn two steps from promotion, next to a white knight it may take
PromotionRace == position({<<At(8, 1), "w", "k">>, <<At(1, 1), "w", "n">>,
                           <<At(8, 8), "b", "k">>, <<At(2, 3), "b", "p">>}, "b", {})
\* White may castle king side
Castling == position({<<At(5, 1), "w", "k">>, <<At(8, 1), "w", "r">>,
                      <<At(8, 2), "w", "p">>, <<At(8, 3), "b", "p">>,
                      <<At(1, 8), "b", "k">>}, "w", {"K"})

SampleGames == {PawnDuel, Cornered, KnightMate, Checkmated, Stalemated,
                StalematedWhite, EnPassant, EnPassantPlayed, PromotionRace, Castling}

(***************************************************************************)
(* The state.  heap[1] is the caller's Chess object; a minimax frame owns  *)
(* the object its `game` field names.  root holds the locals of the        *)
(* running findBestMove / findTopMoves call, stack the minimax frames;     *)
(* root.skipped counts the moves the breaks of minimax left unexplored.    *)
(* result is the value the last call returned, memo a call and its result  *)
(* noted for comparison.                                                   *)
(***************************************************************************)
\* the objects of the user interface, which the search does not touch: the
\* useChessGame hook, the AudioStreamer and the GenAILiveClient
uiVars == <<hook, streamer, client>>

searchVars == <<heap, stack, root, pc, result, memo>>

\* none of them constructed
NoObject == [kind |-> "none"]

uiIdle ==
  /\ hook = NoObject
  /\ streamer = NoObject
  /\ client = NoObject

NoRoot == [api |-> "-", depth |-> 0, count |-> 0, engine |-> "-",
           isMaximizingPlayer |-> FALSE, moves |-> <<>>, idx |-> 0,
           bestMove |-> NoMove, bestValue |-> 0, moveEvaluations |-> <<>>,
           skipped |-> 0]

NoResult == [kind |-> "none"]

Frame(game, depth, alpha, beta, isMaximizingPlayer) ==
  [game |-> game, depth |-> depth, alpha |-> alpha, beta |-> beta,
   isMaximizingPlayer |-> isMaximizingPlayer, at |-> "entry", moves |-> <<>>,
   idx |-> 0, best |-> 0, value |-> 0]

Top == stack[Len(stack)]

\* a faulty variant of the copy: the search works on the object it was given
newChessAlias(h, game) == [heap |-> h, id |-> game]

\* new Chess(game.fen()): the heap with the fresh object, and its address
newChess(h, game) ==
  [heap |-> Append(h, Chess(fen(h[game]))), id |-> Len(h) + 1]

\* a faulty variant of the copy: the move is made on the object given, and the
\* copy is taken afterwards
moveThenCopy(h, game, move) ==
  LET moved == [h EXCEPT ![game] = makeMove(@, move)] IN
  [heap |-> Append(moved, Chess(fen(moved[game]))), id |-> Len(h) + 1]

\* const gameCopy = new Chess(game.fen()); gameCopy.move(move)
copyAndMove(h, game, move) ==
  LET c == newChess(h, game) IN
  [heap |-> [c.heap EXCEPT ![c.id] = makeMove(@, move)], id |-> c.id]

\* objects no frame and no caller refers to are gone
collect(h, frames) ==
  LET live == {1} \cup {frames[i].game : i \in 1..Len(frames)}
      last == CHOOSE n \in live : \A m \in live : m <= n
  IN SubSeq(h, 1, Min(last, Len(h)))

\* a faulty variant of the initial best value: the value the previous call
\* returned is carried into the next search
initialBestStale(isMaximizingPlayer) ==
  IF result.kind = "best" THEN result.evaluation
  ELSE IF isMaximizingPlayer THEN 0 - Infinity ELSE Infinity

\* let maxEval = -Infinity / let minEval = Infinity, and bestValue at the root
initialBest(isMaximizingPlayer) ==
  IF isMaximizingPlayer THEN 0 - Infinity ELSE Infinity

\* a faulty variant of the flag of the recursive call: the flag passed on as it is
childMaximizingSame(isMaximizingPlayer) == isMaximizingPlayer

\* the recursive call passes !isMaximizingPlayer
childMaximizing(isMaximizingPlayer) == ~isMaximizingPlayer

\* a faulty variant of the depth of the recursive call: the depth passed on as it is
childDepthSame(depth) == depth

\* the recursive call passes depth - 1
childDepth(depth) == depth - 1

\* a faulty variant of the cutoff test: its operands exchanged
cutoffSwapped(alpha, beta) == alpha <= beta

\* a faulty variant of the cutoff test: the loop left while the window is open
cutoffEager(alpha, beta) == beta <= alpha + 200

\* if (beta <= alpha) break
cutoff(alpha, beta) == beta <= alpha

\* a faulty variant of the comparison: an equal value also replaces the best
isBetterOrEqual(isMaximizingPlayer, boardValue, bestValue) ==
  IF isMaximizingPlayer THEN boardValue >= bestValue ELSE boardValue <= bestValue

\* boardValue > bestValue for White, boardValue < bestValue for Black
isBetter(isMaximizingPlayer, boardValue, bestValue) ==
  IF isMaximizingPlayer THEN boardValue > bestValue ELSE boardValue < bestValue

\* a faulty variant of the terminal test: the game-over test left out
isTerminalDepthOnly(depth, game) == depth = 0

\* a faulty variant of the terminal test: only positions without a move end the search
isTerminalNoDraw(depth, game) == depth = 0 \/ legalMoves(game) = <<>>

\* if (depth === 0 || game.isGameOver()) return evaluateBoard(game)
isTerminal(depth, game) == depth = 0 \/ isGameOver(game)

\* a faulty variant of the empty result: a neutral evaluation
emptyBestZero(game) ==
  [kind |-> "best", bestMove |-> NoMove, evaluation |-> 0]

\* if (moves.length === 0) return { bestMove: null, evaluation: evaluateBoard(game) }
emptyBest(game) ==
  [kind |-> "best", bestMove |-> NoMove, evaluation |-> evaluateBoard(game)]

\* if (moves.length === 0) return []
emptyTop(game) == [kind |-> "top", list |-> <<>>]

\* faulty variants of the ranking: the list sliced unsorted, and the slice one short
sliceUnsorted(moveEvaluations, isMaximizingPlayer, count) ==
  SubSeq(moveEvaluations, 1, Min(count, Len(moveEvaluations)))

sortAndSliceShort(moveEvaluations, isMaximizingPlayer, count) ==
  LET sorted == arraySort(moveEvaluations,
                          IF isMaximizingPlayer THEN "desc" ELSE "asc", "v8")
  IN SubSeq(sorted, 1, Min(count - 1, Len(sorted)))

\* a faulty variant of the ranking: equal evaluations come out in reverse order
sortAndSliceReversed(moveEvaluations, isMaximizingPlayer, count) ==
  LET sorted == arraySort(Reverse(moveEvaluations),
                          IF isMaximizingPlayer THEN "desc" ELSE "asc", "v8")
  IN SubSeq(sorted, 1, Min(count, Len(sorted)))

\* moveEvaluations.sort(...); return moveEvaluations.slice(0, count)
sortAndSlice(moveEvaluations, isMaximizingPlayer, count) ==
  LET sorted == arraySort(moveEvaluations,
                          IF isMaximizingPlayer THEN "desc" ELSE "asc", "v8")
  IN SubSeq(sorted, 1, Min(count, Len(sorted)))

Init ==
  /\ heap \in {<<g>> : g \in SampleGames}
  /\ stack = <<>>
  /\ root = NoRoot
  /\ pc = "idle"
  /\ result = NoResult
  /\ memo = NoResult
  /\ uiIdle

\* the caller turns to another game
LoadGame(g) ==
  /\ pc = "idle"
  /\ heap # <<g>>
  /\ heap' = <<g>>
  /\ UNCHANGED <<stack, root, pc, result, memo>>
  /\ UNCHANGED uiVars

\* evaluateBoard(game), called on the caller's object
CallEvaluate ==
  /\ pc = "idle"
  /\ root' = [NoRoot EXCEPT !.api = "evaluate"]
  /\ result' = [kind |-> "eval", evaluation |-> evaluateBoard(heap[1])]
  /\ pc' = "done"
  /\ UNCHANGED <<heap, stack, memo>>
  /\ UNCHANGED uiVars

\* findBestMove(game, depth) up to its loop over the moves
CallFindBestMove(depth, engine) ==
  /\ pc = "idle"
  /\ LET moves == legalMoves(heap[1])
         sorted == arraySort(moves, "root", engine)
         isMaximizingPlayer == heap[1].turn = "w"
     IN IF Len(moves) = 0
          THEN /\ root' = [NoRoot EXCEPT !.api = "findBestMove", !.depth = depth,
                                         !.engine = engine]
               /\ result' = emptyBest(heap[1])
               /\ pc' = "done"
          ELSE /\ root' = [NoRoot EXCEPT !.api = "findBestMove", !.depth = depth,
                                         !.engine = engine,
                                         !.isMaximizingPlayer = isMaximizingPlayer,
                                         !.moves = sorted, !.idx = 1,
                                         !.bestMove = sorted[1],
                                         !.bestValue = initialBest(isMaximizingPlayer)]
               /\ result' = NoResult
               /\ pc' = "root"
  /\ UNCHANGED <<heap, stack, memo>>
  /\ UNCHANGED uiVars

\* findTopMoves(game, depth, count) up to its loop over the moves.  count is
\* read by the final slice only; a call that gets that far draws it there
CallFindTopMoves(depth, count) ==
  /\ pc = "idle"
  /\ LET moves == legalMoves(heap[1]) IN
     IF Len(moves) = 0
       THEN /\ root' = [NoRoot EXCEPT !.api = "findTopMoves", !.depth = depth,
                                      !.count = count]
            /\ result' = emptyTop(heap[1])
            /\ pc' = "done"
       ELSE /\ root' = [NoRoot EXCEPT !.api = "findTopMoves", !.depth = depth,
                                      !.isMaximizingPlayer = (heap[1].turn = "w"),
                                      !.moves = moves, !.idx = 1]
            /\ result' = NoResult
            /\ pc' = "root"
  /\ UNCHANGED <<heap, stack, memo>>
  /\ UNCHANGED uiVars

\* one turn of the root loop: copy the game, make the move, call minimax
RootIterate ==
  /\ pc = "root"
  /\ stack = <<>>
  /\ root.idx <= Len(root.moves)
  /\ LET c == copyAndMove(heap, 1, root.moves[root.idx]) IN
     /\ heap' = c.heap
     /\ stack' = <<Frame(c.id, childDepth(root.depth), 0 - Infinity, Infinity,
                         childMaximizing(root.isMaximizingPlayer))>>
  /\ UNCHANGED <<root, pc, result, memo>>
  /\ UNCHANGED uiVars

\* minimax up to its loop: the terminal test, then moves() and the sort
MinimaxEnter ==
  /\ pc = "root"
  /\ stack # <<>>
  /\ Top.at = "entry"
  /\ LET f == Top
         game == heap[f.game]
         moves == arraySort(legalMoves(game), "minimax", "v8")
         best == initialBest(f.isMaximizingPlayer)
     IN stack' = [stack EXCEPT ![Len(stack)] =
          IF isTerminal(f.depth, game)
            THEN [f EXCEPT !.at = "return", !.value = evaluateBoard(game)]
          ELSE IF Len(moves) = 0
            THEN [f EXCEPT !.at = "return", !.value = best, !.best = best]
          ELSE [f EXCEPT !.at = "loop", !.moves = moves, !.idx = 1, !.best = best]]
  /\ UNCHANGED <<heap, root, pc, result, memo>>
  /\ UNCHANGED uiVars

\* one turn of the loop of minimax: copy the game, make the move, recurse
MinimaxIterate ==
  /\ pc = "root"
  /\ stack # <<>>
  /\ Top.at = "loop"
  /\ LET f == Top
         c == copyAndMove(heap, f.game, f.moves[f.idx])
     IN /\ heap' = c.heap
        /\ stack' = Append(stack, Frame(c.id, childDepth(f.depth), f.alpha, f.beta,
                                        childMaximizing(f.isMaximizingPlayer)))
  /\ UNCHANGED <<root, pc, result, memo>>
  /\ UNCHANGED uiVars

\* a faulty variant of the loop body: the window is left as it was passed in
afterChildNoWindow(f, evaluation) ==
  LET best == IF f.isMaximizingPlayer THEN Max(f.best, evaluation)
              ELSE Min(f.best, evaluation)
  IN IF cutoff(f.alpha, f.beta) \/ f.idx = Len(f.moves)
       THEN [f EXCEPT !.best = best, !.at = "return", !.value = best]
       ELSE [f EXCEPT !.best = best, !.idx = f.idx + 1]

\* the caller frame after the recursive call returned `evaluation`
afterChild(f, evaluation) ==
  LET best == IF f.isMaximizingPlayer THEN Max(f.best, evaluation)
              ELSE Min(f.best, evaluation)
      alpha == IF f.isMaximizingPlayer THEN Max(f.alpha, evaluation) ELSE f.alpha
      beta == IF f.isMaximizingPlayer THEN f.beta ELSE Min(f.beta, evaluation)
  IN IF cutoff(alpha, beta) \/ f.idx = Len(f.moves)
       THEN [f EXCEPT !.best = best, !.alpha = alpha, !.beta = beta,
                      !.at = "return", !.value = best]
       ELSE [f EXCEPT !.best = best, !.alpha = alpha, !.beta = beta,
                      !.idx = f.idx + 1]

\* a recursive minimax call returns into the loop of its caller
MinimaxReturn ==
  /\ pc = "root"
  /\ Len(stack) >= 2
  /\ Top.at = "return"
  /\ LET rest == SubSeq(stack, 1, Len(stack) - 1)
         caller == afterChild(rest[Len(rest)], Top.value)
         frames == [rest EXCEPT ![Len(rest)] = caller]
     IN /\ stack' = frames
        /\ heap' = collect(heap, frames)
        /\ root' = IF caller.at = "return"
                     THEN [root EXCEPT !.skipped = @ + (Len(caller.moves) - caller.idx)]
                     ELSE root
  /\ UNCHANGED <<pc, result, memo>>
  /\ UNCHANGED uiVars

\* a faulty variant of the root update: the value is retained, the move is not
afterRootMoveValueOnly(r, boardValue) ==
  IF r.api = "findBestMove"
    THEN IF isBetter(r.isMaximizingPlayer, boardValue, r.bestValue)
           THEN [r EXCEPT !.bestValue = boardValue, !.idx = r.idx + 1]
           ELSE [r EXCEPT !.idx = r.idx + 1]
    ELSE [r EXCEPT !.moveEvaluations =
                     Append(@, [move |-> r.moves[r.idx], evaluation |-> boardValue]),
                   !.idx = r.idx + 1]

\* the locals of findBestMove after minimax returned boardValue
afterRootMove(r, boardValue) ==
  IF r.api = "findBestMove"
    THEN IF isBetter(r.isMaximizingPlayer, boardValue, r.bestValue)
           THEN [r EXCEPT !.bestValue = boardValue, !.bestMove = r.moves[r.idx],
                          !.idx = r.idx + 1]
           ELSE [r EXCEPT !.idx = r.idx + 1]
    ELSE [r EXCEPT !.moveEvaluations =
                     Append(@, [move |-> r.moves[r.idx], evaluation |-> boardValue]),
                   !.idx = r.idx + 1]

\* what the call returns once the root loop is over
rootResult(r) ==
  IF r.api = "findBestMove"
    THEN [kind |-> "best", bestMove |-> r.bestMove, evaluation |-> r.bestValue]
    ELSE [kind |-> "top",
          list |-> sortAndSlice(r.moveEvaluations, r.isMaximizingPlayer, r.count)]

\* minimax returns to the root loop; after the last move the call returns
RootReturn(count) ==
  /\ pc = "root"
  /\ Len(stack) = 1
  /\ Top.at = "return"
  /\ LET r == afterRootMove(root, Top.value) IN
     IF r.idx > Len(r.moves)
       THEN /\ root' = [r EXCEPT !.count = IF r.api = "findTopMoves" THEN count ELSE 0]
            /\ result' = rootResult(root')
            /\ pc' = "done"
       ELSE /\ count = 0
            /\ root' = r
            /\ result' = NoResult
            /\ pc' = "root"
  /\ stack' = <<>>
  /\ heap' = collect(heap, <<>>)
  /\ UNCHANGED memo
  /\ UNCHANGED uiVars

\* the caller takes the result
Consume ==
  /\ pc = "done"
  /\ pc' = "idle"
  /\ root' = NoRoot
  /\ UNCHANGED <<heap, stack, result, memo>>
  /\ UNCHANGED uiVars

Next ==
  \/ \E g \in SampleGames : LoadGame(g)
  \/ CallEvaluate
  \/ \E depth \in 1..MaxDepth, engine \in SortEngines : CallFindBestMove(depth, engine)
  \/ \E depth \in 1..MaxDepth, count \in 0..MaxCount : CallFindTopMoves(depth, count)
  \/ RootIterate
  \/ MinimaxEnter
  \/ MinimaxIterate
  \/ MinimaxReturn
  \/ \E count \in 0..MaxCount : RootReturn(count)
  \/ Consume

Spec == Init /\ [][Next]_vars

(***************************************************************************)
(* The evaluator alone, on boards set up piece by piece.  The first piece  *)
(* may stand anywhere; boards of several pieces use the squares of         *)
(* EvalSquares, two pairs of squares on mirrored rows.                     *)
(***************************************************************************)
\* pieces on a board handed to the evaluator
MaxPieces == 2

PieceKinds == {"p", "n", "b", "r", "q", "k"}
Colors == {"w", "b"}

EvalSquares == {Sq(1, 0), Sq(6, 0), Sq(2, 3), Sq(5, 3)}

EmptyGame == position({}, "w", {})

InitEval ==
  /\ heap = <<EmptyGame>>
  /\ stack = <<>>
  /\ root = NoRoot
  /\ pc = "idle"
  /\ result = NoResult
  /\ memo = NoResult
  /\ uiIdle

\* the caller's board gets one more piece
PutPiece(s, color, type) ==
  /\ pc = "idle"
  /\ heap[1].board[s] = Null
  /\ LET occupied == piecesOn(heap[1].board) IN
     /\ Cardinality(occupied) < MaxPieces
     /\ occupied = {} \/ (occupied \cup {s}) \subseteq EvalSquares
  /\ heap' = <<[heap[1] EXCEPT !.board[s] = Pc(color, type)]>>
  /\ UNCHANGED <<stack, root, pc, result, memo>>
  /\ UNCHANGED uiVars

NextEval ==
  \/ \E s \in 0..63, color \in Colors, type \in PieceKinds : PutPiece(s, color, type)
  \/ CallEvaluate

SpecEval == InitEval /\ [][NextEval]_vars

(***************************************************************************)
(* Repeated calls: the caller notes one call and its result, goes on       *)
(* calling, and compares when the same call on an equal position returns.  *)
(***************************************************************************)
\* the same position as EnPassantPlayed, loaded from its FEN string
EnPassantLoaded == Chess(fen(EnPassantPlayed))

MemoGames == {EnPassantPlayed, EnPassantLoaded}

\* the list lengths the repeated calls ask for: none and the longest
MemoCounts == {0, MaxCount}

\* what identifies a call: the position, the function and its arguments
callKey ==
  [position |-> fen(heap[1]), api |-> root.api, depth |-> root.depth,
   count |-> root.count, engine |-> root.engine]

InitMemo ==
  /\ heap \in {<<g>> : g \in MemoGames}
  /\ stack = <<>>
  /\ root = NoRoot
  /\ pc = "idle"
  /\ result = NoResult
  /\ memo = NoResult
  /\ uiIdle

LoadMemoGame(g) == g \in MemoGames /\ LoadGame(g)

\* the caller notes the call that has just returned
Remember ==
  /\ pc = "done"
  /\ memo = NoResult
  /\ memo' = [kind |-> "memo", key |-> callKey, result |-> result]
  /\ UNCHANGED <<heap, stack, root, pc, result>>
  /\ UNCHANGED uiVars

NextMemo ==
  \/ \E g \in MemoGames : LoadMemoGame(g)
  \/ CallEvaluate
  \/ \E depth \in 1..MaxDepth, engine \in SortEngines : CallFindBestMove(depth, engine)
  \/ \E depth \in 1..MaxDepth, count \in MemoCounts : CallFindTopMoves(depth, count)
  \/ RootIterate
  \/ MinimaxEnter
  \/ MinimaxIterate
  \/ MinimaxReturn
  \/ \E count \in MemoCounts : RootReturn(count)
  \/ Consume
  \/ Remember

SpecMemo == InitMemo /\ [][NextMemo]_vars

(***************************************************************************)
(* The opening: findBestMove on the standard starting position, searched   *)
(* two plies deep.                                                         *)
(***************************************************************************)
backRank == <<"r", "n", "b", "q", "k", "b", "n", "r">>

\* new Chess(): the standard starting position
StartingPosition ==
  position({<<At(f, 1), "w", backRank[f]>> : f \in 1..8}
             \cup {<<At(f, 2), "w", "p">> : f \in 1..8}
             \cup {<<At(f, 7), "b", "p">> : f \in 1..8}
             \cup {<<At(f, 8), "b", backRank[f]>> : f \in 1..8},
           "w", {"K", "Q", "k", "q"})

InitOpening ==
  /\ heap = <<StartingPosition>>
  /\ stack = <<>>
  /\ root = NoRoot
  /\ pc = "idle"
  /\ result = NoResult
  /\ memo = NoResult
  /\ uiIdle

NextOpening ==
  \/ \E engine \in SortEngines : CallFindBestMove(2, engine)
  \/ RootIterate
  \/ MinimaxEnter
  \/ MinimaxIterate
  \/ MinimaxReturn
  \/ RootReturn(0)
  \/ Consume

SpecOpening == InitOpening /\ [][NextOpening]_vars

(***************************************************************************)
(* The search under its scheduling: findBestMove and findTopMoves run      *)
(* synchronously, so a call that has started keeps taking steps until it   *)
(* returns.  The caller's own steps are under no such obligation.  The     *)
(* steps of a running call are exactly the steps taken while pc = "root",  *)
(* and weak fairness of them is written out: either the search is left     *)
(* again and again, or it takes a step again and again.                    *)
(***************************************************************************)
SearchStep == pc = "root" /\ Next

SearchFairness == []<>(pc # "root") \/ []<><<SearchStep>>_vars

SpecFair == Spec /\ SearchFairness

(***************************************************************************)
(* The search followed frame by frame, on the positions whose trees have   *)
(* captures, cutoffs and draws inside.                                     *)
(***************************************************************************)
SearchGames == {PawnDuel, Cornered, KnightMate, EnPassant}

InitSearch ==
  /\ heap \in {<<g>> : g \in SearchGames}
  /\ stack = <<>>
  /\ root = NoRoot
  /\ pc = "idle"
  /\ result = NoResult
  /\ memo = NoResult
  /\ uiIdle

LoadSearchGame(g) == g \in SearchGames /\ LoadGame(g)

NextSearch ==
  \/ \E g \in SearchGames : LoadSearchGame(g)
  \/ \E depth \in 1..MaxDepth, engine \in SortEngines : CallFindBestMove(depth, engine)
  \/ \E depth \in 1..MaxDepth, count \in 0..MaxCount : CallFindTopMoves(depth, count)
  \/ RootIterate
  \/ MinimaxEnter
  \/ MinimaxIterate
  \/ MinimaxReturn
  \/ \E count \in 0..MaxCount : RootReturn(count)
  \/ Consume

SpecSearch == InitSearch /\ [][NextSearch]_vars

(***************************************************************************)
(* minimax as a function of its arguments, for calls made on it directly   *)
(* with any window and any flag.  The order in which the loop takes the    *)
(* moves is a parameter: "captureFirst" is the sort of ai.ts,              *)
(* "enumerated" the order of game.moves(), "reversed" its reverse.         *)
(***************************************************************************)
MoveOrders == {"captureFirst", "enumerated", "reversed"}

orderMoves(order, moves) ==
  CASE order = "captureFirst" -> arraySort(moves, "minimax", "v8")
    [] order = "enumerated" -> moves
    [] order = "reversed" -> Reverse(moves)

RECURSIVE minimaxOrdered(_, _, _, _, _, _)
RECURSIVE minimaxLoop(_, _, _, _, _, _, _, _, _)
\* the loop over the moves, from moves[idx] on, with the running best value
minimaxLoop(order, game, moves, idx, depth, alpha, beta, isMaximizingPlayer, best) ==
  IF idx > Len(moves) THEN best
  ELSE LET gameCopy == makeMove(Chess(fen(game)), moves[idx])
           evaluation == minimaxOrdered(order, gameCopy, childDepth(depth), alpha, beta,
                                        childMaximizing(isMaximizingPlayer))
           newBest == IF isMaximizingPlayer THEN Max(best, evaluation)
                      ELSE Min(best, evaluation)
           newAlpha == IF isMaximizingPlayer THEN Max(alpha, evaluation) ELSE alpha
           newBeta == IF isMaximizingPlayer THEN beta ELSE Min(beta, evaluation)
       IN IF cutoff(newAlpha, newBeta) THEN newBest
          ELSE minimaxLoop(order, game, moves, idx + 1, depth, newAlpha, newBeta,
                           isMaximizingPlayer, newBest)

minimaxOrdered(order, game, depth, alpha, beta, isMaximizingPlayer) ==
  IF isTerminal(depth, game) THEN evaluateBoard(game)
  ELSE minimaxLoop(order, game, orderMoves(order, legalMoves(game)), 1, depth,
                   alpha, beta, isMaximizingPlayer, initialBest(isMaximizingPlayer))

minimax(game, depth, alpha, beta, isMaximizingPlayer) ==
  minimaxOrdered("captureFirst", game, depth, alpha, beta, isMaximizingPlayer)

\* the root loop of findBestMove from moves[idx] on: the best move and value so far
RECURSIVE bestLoop(_, _, _, _, _, _)
bestLoop(game, moves, idx, depth, bestMove, bestValue) ==
  IF idx > Len(moves) THEN [kind |-> "best", bestMove |-> bestMove, evaluation |-> bestValue]
  ELSE LET isMaximizingPlayer == game.turn = "w"
           gameCopy == makeMove(Chess(fen(game)), moves[idx])
           boardValue == minimax(gameCopy, childDepth(depth), 0 - Infinity, Infinity,
                                 childMaximizing(isMaximizingPlayer))
       IN IF isBetter(isMaximizingPlayer, boardValue, bestValue)
            THEN bestLoop(game, moves, idx + 1, depth, moves[idx], boardValue)
            ELSE bestLoop(game, moves, idx + 1, depth, bestMove, bestValue)

\* findBestMove(game, depth) as a function of its arguments and the sort engine
findBestMove(game, depth, engine) ==
  LET moves == legalMoves(game) IN
  IF Len(moves) = 0 THEN emptyBest(game)
  ELSE LET sorted == arraySort(moves, "root", engine) IN
       bestLoop(game, sorted, 1, depth, sorted[1], initialBest(game.turn = "w"))

\* findTopMoves(game, depth, count) as a function of its arguments
findTopMoves(game, depth, count) ==
  LET moves == legalMoves(game)
      isMaximizingPlayer == game.turn = "w"
      moveEvaluations ==
        [i \in 1..Len(moves) |->
           [move |-> moves[i],
            evaluation |-> minimax(makeMove(Chess(fen(game)), moves[i]), childDepth(depth),
                                   0 - Infinity, Infinity,
                                   childMaximizing(isMaximizingPlayer))]]
  IN IF Len(moves) = 0 THEN <<>>
     ELSE sortAndSlice(moveEvaluations, isMaximizingPlayer, count)

\* the windows a direct call is made with
WindowValues == {0 - Infinity, 0 - 100, 100, Infinity}

OrderGames == {PawnDuel, KnightMate, Checkmated, EnPassant}

InitOrder ==
  /\ heap \in {<<g>> : g \in OrderGames}
  /\ stack = <<>>
  /\ root = NoRoot
  /\ pc = "idle"
  /\ result = NoResult
  /\ memo = NoResult
  /\ uiIdle

LoadOrderGame(g) == g \in OrderGames /\ LoadGame(g)

\* minimax(game, depth, alpha, beta, isMaximizingPlayer), called on the caller's
\* object with a window that is not empty
CallMinimax(depth, alpha, beta, isMaximizingPlayer) ==
  /\ pc = "idle"
  /\ alpha < beta
  /\ root' = [api |-> "minimax", depth |-> depth, alpha |-> alpha, beta |-> beta,
              isMaximizingPlayer |-> isMaximizingPlayer]
  /\ result' = [kind |-> "value",
                value |-> minimax(heap[1], depth, alpha, beta, isMaximizingPlayer)]
  /\ pc' = "done"
  /\ UNCHANGED <<heap, stack, memo>>
  /\ UNCHANGED uiVars

\* the caller drops the value
Discard ==
  /\ pc = "done"
  /\ pc' = "idle"
  /\ root' = NoRoot
  /\ result' = NoResult
  /\ UNCHANGED <<heap, stack, memo>>
  /\ UNCHANGED uiVars

NextOrder ==
  \/ \E g \in OrderGames : LoadOrderGame(g)
  \/ \E depth \in 0..MaxDepth, alpha, beta \in WindowValues,
        isMaximizingPlayer \in BOOLEAN :
       CallMinimax(depth, alpha, beta, isMaximizingPlayer)
  \/ Discard

SpecOrder == InitOrder /\ [][NextOrder]_vars

(***************************************************************************)
(* useChessGame (src/src/hooks/useChessGame.ts).  hook.game is the React   *)
(* state `game`, the value of the last setGame; hook.closure is the `game` *)
(* that the executeMove of the last render has captured (useCallback with  *)
(* [game]); hook.timers are the setTimeout callbacks not yet run, each     *)
(* with the playerMoveGame it has captured; hook.fired is what the last    *)
(* callback run did.                                                       *)
(***************************************************************************)
MaxCalls == 2

\* findBestMove(opponentTurnGame, 3)
ReplyDepth == 3

\* kings in their corners behind blocked rook pawns, Black to move: Black has
\* three moves, White one
LockedPawns == position({<<At(8, 1), "w", "k">>, <<At(8, 2), "w", "p">>,
                         <<At(1, 8), "b", "k">>, <<At(1, 7), "b", "p">>,
                         <<At(1, 6), "b", "p">>, <<At(8, 3), "b", "p">>}, "b", {})
\* White's only move takes the last pawn and leaves king against king
LastPawn == position({<<At(1, 1), "w", "k">>, <<At(3, 1), "b", "k">>,
                      <<At(1, 2), "b", "p">>}, "w", {})

HookGames == {LockedPawns, LastPawn}

NoFire == [kind |-> "none"]

InitHook ==
  /\ heap = <<EmptyGame>>
  /\ stack = <<>>
  /\ root = NoRoot
  /\ pc = "idle"
  /\ result = NoResult
  /\ memo = NoResult
  /\ hook \in {[kind |-> "hook", game |-> g, closure |-> g, timers |-> <<>>,
                calls |-> 0, fired |-> NoFire] : g \in HookGames}
  /\ streamer = NoObject
  /\ client = NoObject

\* React renders again after setGame: executeMove is made anew around `game`
Render ==
  /\ hook.closure # hook.game
  /\ hook' = [hook EXCEPT !.closure = hook.game]
  /\ UNCHANGED <<searchVars, streamer, client>>

\* a faulty variant of the test before the timer: a reply also after the game is over
schedulesReplyAlways(playerMoveGame) == TRUE

\* if (!playerMoveGame.isGameOver())
schedulesReply(playerMoveGame) == ~isGameOver(playerMoveGame)

\* executeMove(move, onOpponentMoved) up to its return: the move is made on a
\* copy of the captured game, stored, and a timer is set
ExecuteMove(i, onOpponentMoved) ==
  /\ hook.calls < MaxCalls
  /\ i \in 1..Len(legalMoves(hook.closure))
  /\ LET move == legalMoves(hook.closure)[i]
         playerMoveGame == makeMove(Chess(fen(hook.closure)), move)
         timer == IF schedulesReply(playerMoveGame)
                    THEN <<[kind |-> "reply", playerMoveGame |-> playerMoveGame]>>
                  ELSE IF onOpponentMoved
                    THEN <<[kind |-> "notify", playerMoveGame |-> playerMoveGame]>>
                  ELSE <<>>
     IN hook' = [hook EXCEPT !.game = playerMoveGame,
                             !.timers = @ \o timer,
                             !.calls = @ + 1]
  /\ UNCHANGED <<searchVars, streamer, client>>

\* a faulty variant of the test in the timer: only a finished game stops the reply
skipsReplyGameOverOnly(opponentTurnGame) == isGameOver(opponentTurnGame)

\* if (opponentTurnGame.isGameOver() || opponentTurnGame.turn() === 'w')
skipsReply(opponentTurnGame) ==
  isGameOver(opponentTurnGame) \/ opponentTurnGame.turn = "w"

\* timers of one delay run in the order they were set
mayFire(i) ==
  /\ i \in 1..Len(hook.timers)
  /\ \A j \in 1..(i - 1) : hook.timers[j].kind # hook.timers[i].kind

dropTimer(timers, i) == SubSeq(timers, 1, i - 1) \o SubSeq(timers, i + 1, Len(timers))

\* the callback of the 500 ms timer, up to its first await
FireReply(i, engine) ==
  /\ mayFire(i)
  /\ hook.timers[i].kind = "reply"
  /\ LET opponentTurnGame == Chess(fen(hook.timers[i].playerMoveGame))
         found == findBestMove(opponentTurnGame, ReplyDepth, engine)
     IN IF skipsReply(opponentTurnGame)
          THEN hook' = [hook EXCEPT !.timers = dropTimer(@, i),
                                    !.fired = [kind |-> "reply",
                                               position |-> opponentTurnGame,
                                               searched |-> FALSE,
                                               stored |-> FALSE]]
        ELSE IF found.bestMove = NoMove
          THEN hook' = [hook EXCEPT !.timers = dropTimer(@, i),
                                    !.fired = [kind |-> "reply",
                                               position |-> opponentTurnGame,
                                               searched |-> TRUE,
                                               stored |-> FALSE]]
        ELSE hook' = [hook EXCEPT !.game = makeMove(opponentTurnGame, found.bestMove),
                                  !.timers = dropTimer(@, i),
                                  !.fired = [kind |-> "reply",
                                             position |-> opponentTurnGame,
                                             searched |-> TRUE,
                                             stored |-> TRUE]]
  /\ UNCHANGED <<searchVars, streamer, client>>

\* the callback of the 100 ms timer: onOpponentMoved(playerMoveGame)
FireNotify(i) ==
  /\ mayFire(i)
  /\ hook.timers[i].kind = "notify"
  /\ hook' = [hook EXCEPT !.timers = dropTimer(@, i),
                          !.fired = [kind |-> "notify",
                                     position |-> hook.timers[i].playerMoveGame,
                                     searched |-> FALSE,
                                     stored |-> FALSE]]
  /\ UNCHANGED <<searchVars, streamer, client>>

NextHook ==
  \/ Render
  \/ \E i \in 1..Len(legalMoves(hook.closure)), onOpponentMoved \in BOOLEAN :
       ExecuteMove(i, onOpponentMoved)
  \/ \E i \in 1..MaxCalls, engine \in SortEngines : FireReply(i, engine)
  \/ \E i \in 1..MaxCalls : FireNotify(i)

SpecHook == InitHook /\ [][NextHook]_vars

(***************************************************************************)
(* AudioStreamer (src/src/lib/ai.ts 236-355).  Time is counted in frames  *)
(* of the 24000 Hz sample rate, so the duration of a buffer is its frame   *)
(* count.  streamer.calls are the addPCM16 calls that are waiting at an    *)
(* await, oldest first; streamer.started is the record of every            *)
(* source.start(), in the order they were made, and streamer.added the     *)
(* length of every chunk handed to addPCM16.                               *)
(***************************************************************************)
MaxChunks == 3
MaxTime == 2
MaxStops == 1

\* byte lengths of the chunks: PCM16 has two bytes per sample
ChunkLengths == {0, 2, 4}

InitStreamer ==
  /\ heap = <<EmptyGame>>
  /\ stack = <<>>
  /\ root = NoRoot
  /\ pc = "idle"
  /\ result = NoResult
  /\ memo = NoResult
  /\ hook = NoObject
  /\ streamer \in {[kind |-> "streamer", nextStartTime |-> 0, sources |-> {},
                    state |-> s, currentTime |-> 0, calls |-> <<>>,
                    started |-> <<>>, added |-> <<>>, stops |-> 0] :
                   s \in {"suspended", "running"}}
  /\ client = NoObject

\* frameCount = pcm16Data.length / 2, and the buffer lasts frameCount frames
duration(chunk) == chunk \div 2

\* a faulty variant of the start time: every source starts at once
startTimeNow(nextStartTime, currentTime) == currentTime

\* Math.max(this.nextStartTime, this.context.currentTime)
startTime(nextStartTime, currentTime) == Max(nextStartTime, currentTime)

\* addPCM16(chunk) up to its first await
AddPCM16(chunk) ==
  /\ Len(streamer.added) < MaxChunks
  /\ streamer' =
       [streamer EXCEPT
          !.added = Append(@, chunk),
          !.calls = IF chunk = 0
                      THEN @
                      ELSE Append(@, [id |-> Len(streamer.added) + 1,
                                      chunk |-> chunk,
                                      stage |-> "resume",
                                      stops |-> streamer.stops])]
  /\ UNCHANGED <<searchVars, hook, client>>

\* `await this.resume()` is over: the context runs.  Continuations run in the
\* order of the calls.
AfterResume(i) ==
  /\ i \in 1..Len(streamer.calls)
  /\ streamer.calls[i].stage = "resume"
  /\ streamer.state = "running"
  /\ \A j \in 1..(i - 1) : streamer.calls[j].stage = "decode"
  /\ streamer' = [streamer EXCEPT !.calls[i].stage = "decode"]
  /\ UNCHANGED <<searchVars, hook, client>>

\* `await this.decodeAndBuffer(chunk)` is over: the rest of addPCM16
AfterDecode ==
  /\ streamer.calls # <<>>
  /\ streamer.calls[1].stage = "decode"
  /\ LET call == streamer.calls[1]
         at == startTime(streamer.nextStartTime, streamer.currentTime)
     IN streamer' =
          [streamer EXCEPT
             !.nextStartTime = at + duration(call.chunk),
             !.sources = @ \cup {call.id},
             !.calls = Tail(@),
             !.started = Append(@, [id |-> call.id,
                                    at |-> at,
                                    duration |-> duration(call.chunk),
                                    now |-> streamer.currentTime,
                                    stops |-> call.stops,
                                    stopsAtStart |-> streamer.stops,
                                    stoppedAt |-> -1])]
  /\ UNCHANGED <<searchVars, hook, client>>

\* the browser grants context.resume()
ContextResumed ==
  /\ streamer.kind = "streamer"
  /\ streamer.state = "suspended"
  /\ streamer' = [streamer EXCEPT !.state = "running"]
  /\ UNCHANGED <<searchVars, hook, client>>

\* context.currentTime advances while the context runs
Tick ==
  /\ streamer.kind = "streamer"
  /\ streamer.state = "running"
  /\ streamer.currentTime < MaxTime
  /\ streamer' = [streamer EXCEPT !.currentTime = @ + 1]
  /\ UNCHANGED <<searchVars, hook, client>>

\* the 'ended' listener of a source that has played to its end
Ended(i) ==
  /\ i \in 1..Len(streamer.started)
  /\ streamer.started[i].id \in streamer.sources
  /\ streamer.started[i].at + streamer.started[i].duration <= streamer.currentTime
  /\ streamer' = [streamer EXCEPT !.sources = @ \ {streamer.started[i].id}]
  /\ UNCHANGED <<searchVars, hook, client>>

\* stop()
Stop ==
  /\ streamer.kind = "streamer"
  /\ streamer.stops < MaxStops
  /\ streamer' =
       [streamer EXCEPT
          !.started = [i \in DOMAIN @ |->
                         IF @[i].id \in streamer.sources
                           THEN [@[i] EXCEPT !.stoppedAt = streamer.currentTime]
                           ELSE @[i]],
          !.sources = {},
          !.nextStartTime = 0,
          !.stops = @ + 1]
  /\ UNCHANGED <<searchVars, hook, client>>

NextStreamer ==
  \/ \E chunk \in ChunkLengths : AddPCM16(chunk)
  \/ \E i \in 1..MaxChunks : AfterResume(i)
  \/ AfterDecode
  \/ ContextResumed
  \/ Tick
  \/ \E i \in 1..MaxChunks : Ended(i)
  \/ Stop

SpecStreamer == InitStreamer /\ [][NextStreamer]_vars

(***************************************************************************)
(* GenAILiveClient (src/unnamed/part_003 30-161).  client.conns[id] is    *)
(* the state of the id-th connection asked of client.live.connect:         *)
(* "connecting" while connect() awaits it, then "open", "closing" after    *)
(* session.close(), "closed" at the end.  client.session is the id of the  *)
(* session held, 0 for undefined.  client.afterDisconnect records that     *)
(* disconnect() has been called and connect() has not been called since.   *)
(***************************************************************************)
MaxConnects == 3

InitClient ==
  /\ heap = <<EmptyGame>>
  /\ stack = <<>>
  /\ root = NoRoot
  /\ pc = "idle"
  /\ result = NoResult
  /\ memo = NoResult
  /\ hook = NoObject
  /\ streamer = NoObject
  /\ client = [kind |-> "client", status |-> "disconnected", session |-> 0,
               conns |-> <<>>, calls |-> 0, afterDisconnect |-> FALSE]

\* connect(config) up to its await
Connect ==
  /\ client.kind = "client"
  /\ client.calls < MaxConnects
  /\ IF client.status # "disconnected"
       THEN client' = [client EXCEPT !.calls = @ + 1, !.afterDisconnect = FALSE]
       ELSE client' = [client EXCEPT !.calls = @ + 1,
                                     !.afterDisconnect = FALSE,
                                     !.status = "connecting",
                                     !.conns = Append(@, "connecting")]
  /\ UNCHANGED <<searchVars, hook, streamer>>

\* the rest of the try block: client.live.connect has given a session
ConnectResolved(id) ==
  /\ id \in 1..Len(client.conns)
  /\ client.conns[id] = "connecting"
  /\ client' = [client EXCEPT !.conns[id] = "open",
                              !.session = id,
                              !.status = "connected"]
  /\ UNCHANGED <<searchVars, hook, streamer>>

\* the body of disconnect() on the fields of the client
disconnect(c) ==
  IF c.status = "disconnected"
    THEN c
    ELSE [c EXCEPT !.conns = [i \in DOMAIN @ |->
                                IF i = c.session /\ @[i] = "open" THEN "closing" ELSE @[i]],
                   !.session = 0,
                   !.status = "disconnected"]

\* the catch block: client.live.connect has failed; onError calls disconnect()
ConnectRejected(id) ==
  /\ id \in 1..Len(client.conns)
  /\ client.conns[id] = "connecting"
  /\ client' = disconnect([client EXCEPT !.conns[id] = "closed",
                                         !.status = "disconnected",
                                         !.session = 0])
  /\ UNCHANGED <<searchVars, hook, streamer>>

\* disconnect() called by the application
Disconnect ==
  /\ client.kind = "client"
  /\ client' = [disconnect(client) EXCEPT !.afterDisconnect = TRUE]
  /\ UNCHANGED <<searchVars, hook, streamer>>

\* the onclose callback of a connection
OnClose(id) ==
  /\ id \in 1..Len(client.conns)
  /\ client.conns[id] \in {"open", "closing"}
  /\ client' = [client EXCEPT !.conns[id] = "closed", !.status = "disconnected"]
  /\ UNCHANGED <<searchVars, hook, streamer>>

\* the onerror callback of a connection
OnError(id) ==
  /\ id \in 1..Len(client.conns)
  /\ client.conns[id] = "open"
  /\ client' = disconnect(client)
  /\ UNCHANGED <<searchVars, hook, streamer>>

NextClient ==
  \/ Connect
  \/ \E id \in 1..MaxConnects : ConnectResolved(id)
  \/ \E id \in 1..MaxConnects : ConnectRejected(id)
  \/ Disconnect
  \/ \E id \in 1..MaxConnects : OnClose(id)
  \/ \E id \in 1..MaxConnects : OnError(id)

SpecClient == InitClient /\ [][NextClient]_vars

(***************************************************************************)
(* The reference the claims compare the search with: minimax over the      *)
(* whole depth-limited tree, with no window and no cutoff.  White picks    *)
(* the largest value, Black the smallest.                                  *)
(***************************************************************************)
SetMax(S) == CHOOSE v \in S : \A w \in S : w <= v
SetMin(S) == CHOOSE v \in S : \A w \in S : w >= v

RECURSIVE fullMinimax(_, _)
fullMinimax(game, depth) ==
  IF depth = 0 \/ isGameOver(game) THEN evaluateBoard(game)
  ELSE LET moves == legalMoves(game)
           values == {fullMinimax(makeMove(Chess(fen(game)), moves[i]), depth - 1) :
                        i \in 1..Len(moves)}
       IN IF game.turn = "w" THEN SetMax(values) ELSE SetMin(values)

\* the exact value of root move m of the caller's game, searched depth - 1 deep
exactValue(game, m, depth) ==
  fullMinimax(makeMove(Chess(fen(game)), m), depth - 1)

\* the exact value of the root: the best exact value of a root move
exactRootValue(game, depth) ==
  LET moves == legalMoves(game)
      values == {exactValue(game, moves[i], depth) : i \in 1..Len(moves)}
  IN IF game.turn = "w" THEN SetMax(values) ELSE SetMin(values)

Returned(api) == pc = "done" /\ root.api = api

(***************************************************************************)
(* C1: when the position has a legal move, the evaluation findBestMove     *)
(* returns is the value of the unpruned minimax over the same tree.        *)
(***************************************************************************)
C1_PruningKeepsRootValue ==
  (Returned("findBestMove") /\ legalMoves(heap[1]) # <<>>)
    => result.evaluation = exactRootValue(heap[1], root.depth)

\* findBestMove has returned from a search in which cutoffs left moves unexplored
C1_Witness ==
  /\ Returned("findBestMove")
  /\ root.skipped > 0
  /\ result.bestMove # NoMove

(***************************************************************************)
(* C2: on a position with no legal move findBestMove returns no move and   *)
(* evaluate(P), and findTopMoves returns the empty list, at once, for      *)
(* every depth and count.                                                  *)
(***************************************************************************)
C2_NoLegalMoves ==
  (pc = "done" /\ root.api \in {"findBestMove", "findTopMoves"}
     /\ legalMoves(heap[1]) = <<>>)
    => /\ root.idx = 0
       /\ root.api = "findBestMove" =>
            /\ result.kind = "best"
            /\ result.bestMove = NoMove
            /\ result.evaluation = evaluateBoard(heap[1])
       /\ root.api = "findTopMoves" =>
            /\ result.kind = "top"
            /\ result.list = <<>>

\* findBestMove has returned on a checkmated position
C2_Witness ==
  /\ Returned("findBestMove")
  /\ legalMoves(heap[1]) = <<>>
  /\ isCheck(heap[1])
  /\ root.depth = MaxDepth

(***************************************************************************)
(* C3: findTopMoves returns at most count entries, in non-increasing order *)
(* of evaluation when White is to move and non-decreasing order when Black *)
(* is to move.                                                             *)
(***************************************************************************)
C3_RankingOrder ==
  Returned("findTopMoves") =>
    /\ Len(result.list) <= root.count
    /\ \A i \in 1..Len(result.list) - 1 :
         IF heap[1].turn = "w"
           THEN result.list[i].evaluation >= result.list[i + 1].evaluation
           ELSE result.list[i].evaluation <= result.list[i + 1].evaluation

\* findTopMoves has returned, for Black, a list of several distinct evaluations
C3_Witness ==
  /\ Returned("findTopMoves")
  /\ heap[1].turn = "b"
  /\ Len(result.list) >= 2
  /\ result.list[1].evaluation < result.list[2].evaluation

(***************************************************************************)
(* C4: findTopMoves returns min(count, n) entries for n legal root moves,  *)
(* and every legal root move exactly once when count >= n.                 *)
(***************************************************************************)
C4_Truncation ==
  Returned("findTopMoves") =>
    LET moves == legalMoves(heap[1]) IN
    /\ Len(result.list) = Min(root.count, Len(moves))
    /\ root.count >= Len(moves) =>
         \A i \in 1..Len(moves) :
           Cardinality({j \in 1..Len(result.list) : result.list[j].move = moves[i]}) = 1

\* findTopMoves has returned every move of a position with count = n moves
C4_Witness ==
  /\ Returned("findTopMoves")
  /\ Len(result.list) >= 2
  /\ Len(result.list) = Len(legalMoves(heap[1]))
  /\ root.count >= Len(result.list)

(***************************************************************************)
(* C5: entry 0 of findTopMoves is best for the side to move: no legal root *)
(* move has an exact value strictly better than entry 0's evaluation, and  *)
(* no move left out by the truncation is strictly better than a returned   *)
(* one.                                                                    *)
(***************************************************************************)
strictlyBetter(turn, a, b) == IF turn = "w" THEN a > b ELSE a < b

C5_FirstEntryIsBest ==
  (Returned("findTopMoves") /\ Len(result.list) >= 1) =>
    LET moves == legalMoves(heap[1])
        turn == heap[1].turn
        kept == {result.list[j].move : j \in 1..Len(result.list)}
    IN \A i \in 1..Len(moves) :
         LET v == exactValue(heap[1], moves[i], root.depth) IN
         /\ ~strictlyBetter(turn, v, result.list[1].evaluation)
         /\ moves[i] \notin kept =>
              \A j \in 1..Len(result.list) :
                ~strictlyBetter(turn, v, result.list[j].evaluation)

\* findTopMoves has returned a truncated list whose first entry beats a move left out
C5_Witness ==
  /\ Returned("findTopMoves")
  /\ root.depth >= 2
  /\ Len(result.list) >= 1
  /\ Len(result.list) < Len(legalMoves(heap[1]))
  /\ \E i \in 1..Len(root.moveEvaluations) :
       root.moveEvaluations[i].evaluation # result.list[1].evaluation

(***************************************************************************)
(* C6: a minimax call at depth 0 or on a game-over position returns        *)
(* evaluate(P) without exploring a move, whatever alpha, beta and the      *)
(* maximizing flag are.                                                    *)
(***************************************************************************)
C6_TerminalIsStaticEval ==
  (stack # <<>> /\ Top.at # "entry"
     /\ (Top.depth = 0 \/ isGameOver(heap[Top.game])))
    => /\ Top.at = "return"
       /\ Top.value = evaluateBoard(heap[Top.game])
       /\ Top.moves = <<>>
       /\ Len(heap) = Top.game

\* minimax returns on a drawn position that still has legal moves and depth left
C6_Witness ==
  /\ stack # <<>>
  /\ Top.at = "return"
  /\ Top.depth > 0
  /\ isGameOver(heap[Top.game])
  /\ legalMoves(heap[Top.game]) # <<>>

(***************************************************************************)
(* C7 (as stated): swapping the colour of every piece, each staying on its *)
(* square, negates the evaluation.                                         *)
(***************************************************************************)
colorFlip(game) ==
  [game EXCEPT !.board = [s \in 0..63 |->
     IF game.board[s] = Null THEN Null
     ELSE Pc(swapColor(game.board[s].color), game.board[s].type)]]

mirrorRows(game) ==
  [game EXCEPT !.board = [s \in 0..63 |-> game.board[Sq(7 - RowOf(s), ColOf(s))]]]

C7_ColorFlipNegates ==
  Returned("evaluate") => evaluateBoard(colorFlip(heap[1])) = 0 - result.evaluation

(***************************************************************************)
(* C7 (amended): swapping the colour of every piece gives the negated      *)
(* evaluation of the board mirrored across the horizontal axis (row r to   *)
(* row 7 - r).                                                             *)
(***************************************************************************)
C7_ColorFlipNegatesMirrored ==
  Returned("evaluate") =>
    /\ evaluateBoard(colorFlip(heap[1])) = 0 - evaluateBoard(mirrorRows(heap[1]))
    /\ evaluateBoard(colorFlip(mirrorRows(heap[1]))) = 0 - result.evaluation

\* a board with a pawn on its seventh rank has been evaluated
C7_Witness ==
  /\ Returned("evaluate")
  /\ \E s \in 0..63 : RowOf(s) = 1 /\ heap[1].board[s] = Pc("w", "p")
  /\ evaluateBoard(colorFlip(heap[1])) # 0 - result.evaluation

(***************************************************************************)
(* C8: evaluate(P) is the sum over the occupied squares of                 *)
(* +(value + PST[kind][row][col]) for a white piece and                    *)
(* -(value + PST[kind][7-row][col]) for a black piece, with the values     *)
(* pawn 100, knight 320, bishop 330, rook 500, queen 900, king 20000.      *)
(***************************************************************************)
statedValue(type) ==
  CASE type = "p" -> 100 [] type = "n" -> 320 [] type = "b" -> 330
    [] type = "r" -> 500 [] type = "q" -> 900 [] type = "k" -> 20000

statedTerm(board, s) ==
  IF board[s].color = "w"
    THEN statedValue(board[s].type) + PSTS[board[s].type][RowOf(s) + 1][ColOf(s) + 1]
    ELSE 0 - (statedValue(board[s].type)
                + PSTS[board[s].type][(7 - RowOf(s)) + 1][ColOf(s) + 1])

RECURSIVE statedSum(_, _)
statedSum(board, S) ==
  IF S = {} THEN 0
  ELSE LET s == CHOOSE x \in S : TRUE IN statedTerm(board, s) + statedSum(board, S \ {s})

C8_EvaluateIsStatedSum ==
  Returned("evaluate") =>
    result.evaluation = statedSum(heap[1].board, piecesOn(heap[1].board))

\* a board with a white and a black piece has been evaluated
C8_Witness ==
  /\ Returned("evaluate")
  /\ \E s, t \in 0..63 : /\ heap[1].board[s].color = "w"
                         /\ heap[1].board[t].color = "b"
                         /\ RowOf(t) # 7 - RowOf(t)
                         /\ PSTS[heap[1].board[t].type][RowOf(t) + 1][ColOf(t) + 1]
                              # PSTS[heap[1].board[t].type][(7 - RowOf(t)) + 1][ColOf(t) + 1]

(***************************************************************************)
(* C9: no step of evaluate, minimax, findTopMoves or findBestMove changes  *)
(* the caller's position: board, side to move, castling and en-passant     *)
(* state, move counters and history stay what they were at the call.       *)
(***************************************************************************)
C9_CallerPositionUntouched ==
  [][(pc # "idle" \/ pc' # "idle") => heap'[1] = heap[1]]_vars

\* findBestMove has searched from a caller's object that has a move history
C9_Witness ==
  /\ Returned("findBestMove")
  /\ heap[1].history # <<>>
  /\ root.idx > Len(root.moves)
  /\ root.depth = MaxDepth

(***************************************************************************)
(* C10: a call returns what the same call returned before on an equal      *)
(* position, whatever calls were made before or in between.                *)
(***************************************************************************)
C10_RepeatedCallsAgree ==
  (pc = "done" /\ memo # NoResult /\ memo.key = callKey) => result = memo.result

\* the noted call was made on another object, with another history, and
\* other calls were made in between
C10_Witness ==
  /\ Returned("findBestMove")
  /\ memo # NoResult
  /\ memo.key = callKey
  /\ heap[1].history # <<>>
  /\ root.depth = MaxDepth
  /\ result.bestMove # NoMove


(***************************************************************************)
(* C11: findBestMove returns the earliest move, in the capture-first order *)
(* of its root loop, whose exact value equals the returned evaluation: a   *)
(* later move of equal value never replaces it.                            *)
(***************************************************************************)
rootValues ==
  [i \in 1..Len(root.moves) |-> exactValue(heap[1], root.moves[i], root.depth)]

captureFirst(moves) ==
  \A i, j \in 1..Len(moves) : (i < j /\ isCapture(moves[j])) => isCapture(moves[i])

C11_EarliestBestIsKept ==
  (Returned("findBestMove") /\ root.moves # <<>>) =>
    LET hits == {i \in 1..Len(root.moves) : rootValues[i] = result.evaluation} IN
    /\ captureFirst(root.moves)
    /\ hits # {}
    /\ result.bestMove = root.moves[SetMin(hits)]

\* findBestMove has returned a move that a later move of the root loop equals in value
C11_Witness ==
  /\ Returned("findBestMove")
  /\ root.moves # <<>>
  /\ \E i, j \in 1..Len(root.moves) :
       /\ i < j
       /\ result.bestMove = root.moves[i]
       /\ rootValues[j] = result.evaluation

(***************************************************************************)
(* C12: with a legal move in the position findBestMove returns one of the  *)
(* legal moves, and the evaluation is the minimax value of that very move; *)
(* the -Infinity / Infinity placeholder is gone after the first root move  *)
(* and is never returned.                                                  *)
(***************************************************************************)
isSentinel(v) == v = Infinity \/ v = 0 - Infinity

C12_ReturnedMoveIsLegal ==
  /\ (Returned("findBestMove") /\ legalMoves(heap[1]) # <<>>) =>
       LET moves == legalMoves(heap[1]) IN
       /\ result.bestMove # NoMove
       /\ \E i \in 1..Len(moves) : moves[i] = result.bestMove
       /\ ~isSentinel(result.evaluation)
       /\ result.evaluation = exactValue(heap[1], result.bestMove, root.depth)
  /\ (pc = "root" /\ root.api = "findBestMove" /\ root.idx > 1) =>
       ~isSentinel(root.bestValue)

\* findBestMove has returned a move other than the first of its root loop
C12_Witness ==
  /\ Returned("findBestMove")
  /\ root.depth = MaxDepth
  /\ Len(root.moves) >= 2
  /\ result.bestMove # root.moves[1]
  /\ result.bestMove # NoMove


(***************************************************************************)
(* C13 (as stated): for every position, depth, alpha, beta and flag,       *)
(* minimax returns the same value whatever order the moves are explored    *)
(* in.                                                                     *)
(***************************************************************************)
valueIn(order) ==
  minimaxOrdered(order, heap[1], root.depth, root.alpha, root.beta,
                 root.isMaximizingPlayer)

C13_OrderIndependent ==
  Returned("minimax") => \A order \in MoveOrders : valueIn(order) = result.value

(***************************************************************************)
(* C13 (amended): with the full window -Infinity, Infinity the value is    *)
(* the same whatever the order; with a narrower window alpha < beta the    *)
(* values of two orders agree when one of them lies inside the window, and *)
(* otherwise lie on the same side of it.                                   *)
(***************************************************************************)
C13_OrderIndependentFullWindow ==
  Returned("minimax") =>
    \A order \in MoveOrders :
      LET v == valueIn(order) IN
      /\ (root.alpha = 0 - Infinity /\ root.beta = Infinity) => v = result.value
      /\ (root.alpha < result.value /\ result.value < root.beta) => v = result.value
      /\ result.value <= root.alpha => v <= root.alpha
      /\ result.value >= root.beta => v >= root.beta

\* a full-window call whose moves include a capture that the enumeration does
\* not put first, searched deep enough for cutoffs
C13_Witness ==
  /\ Returned("minimax")
  /\ root.alpha = 0 - Infinity
  /\ root.beta = Infinity
  /\ root.depth = MaxDepth
  /\ LET moves == legalMoves(heap[1]) IN
     /\ orderMoves("captureFirst", moves) # moves
     /\ orderMoves("captureFirst", moves) # Reverse(moves)


(***************************************************************************)
(* C19: the value minimax returns for the window -Infinity, Infinity is    *)
(* never a sentinel: it is evaluate(Q) of a position Q reachable from P in *)
(* at most depth plies, for every depth >= 0 and either flag.              *)
(***************************************************************************)
RECURSIVE reachableEvaluations(_, _)
reachableEvaluations(game, depth) ==
  IF depth = 0 THEN {evaluateBoard(game)}
  ELSE LET moves == legalMoves(game) IN
       {evaluateBoard(game)} \cup
         UNION {reachableEvaluations(makeMove(Chess(fen(game)), moves[i]), depth - 1) :
                  i \in 1..Len(moves)}

C19_SentinelsNeverReturned ==
  Returned("minimax") =>
    /\ ~isSentinel(result.value)
    /\ (root.alpha = 0 - Infinity /\ root.beta = Infinity) =>
         /\ result.value \in reachableEvaluations(heap[1], root.depth)
         /\ \A v \in reachableEvaluations(heap[1], root.depth) :
              0 - Infinity < v /\ v < Infinity

\* a full-window call, as deep as the bound allows, on a position with moves,
\* has returned the evaluation of a position other than the one it was given
C19_Witness ==
  /\ Returned("minimax")
  /\ root.alpha = 0 - Infinity
  /\ root.beta = Infinity
  /\ root.depth = MaxDepth
  /\ ~root.isMaximizingPlayer
  /\ legalMoves(heap[1]) # <<>>
  /\ result.value # evaluateBoard(heap[1])


(***************************************************************************)
(* C14: from the standard starting position at depth 2 findBestMove        *)
(* returns the evaluation 0 and a move that is one of the 20 legal opening *)
(* moves.                                                                  *)
(***************************************************************************)
C14_OpeningIsLevel ==
  (Returned("findBestMove") /\ heap[1] = StartingPosition /\ root.depth = 2) =>
    LET moves == legalMoves(StartingPosition) IN
    /\ Len(moves) = 20
    /\ result.evaluation = 0
    /\ result.bestMove # NoMove
    /\ \E i \in 1..Len(moves) : moves[i] = result.bestMove

\* the depth-2 search of the starting position has returned after all 20 root moves
C14_Witness ==
  /\ Returned("findBestMove")
  /\ heap[1] = StartingPosition
  /\ root.depth = 2
  /\ root.idx = 21
  /\ evaluateBoard(heap[1]) = 0


(***************************************************************************)
(* C15: in a call findBestMove(P, d) or findTopMoves(P, d, count) with     *)
(* d >= 1 every minimax invocation has a depth in 0..d-1, the nesting of   *)
(* minimax calls never exceeds d, the depth falls by exactly 1 from one    *)
(* level to the next, and the call terminates.                             *)
(***************************************************************************)
depthsBounded ==
  pc = "root" =>
    /\ Len(stack) <= root.depth
    /\ \A i \in 1..Len(stack) :
         /\ stack[i].depth \in 0..(root.depth - 1)
         /\ stack[i].depth = (IF i = 1 THEN root.depth ELSE stack[i - 1].depth) - 1

\* a running call is never stuck: its next step is at hand
searchCanStep ==
  pc = "root" =>
    IF stack = <<>> THEN root.idx <= Len(root.moves)
    ELSE \/ Top.at \in {"entry", "return"}
         \/ Top.at = "loop" /\ Top.idx <= Len(Top.moves)

C15_RecursionBounded ==
  /\ []depthsBounded
  /\ []searchCanStep
  /\ (pc = "root") ~> (pc = "done")

\* the nesting of minimax calls has reached the depth of the call
C15_Witness ==
  /\ pc = "root"
  /\ root.depth = MaxDepth
  /\ Len(stack) = MaxDepth
  /\ Top.depth = 0
  /\ Top.at = "return"


(***************************************************************************)
(* C16: in the list findTopMoves returns, two moves of equal evaluation    *)
(* stand in the order in which game.moves() enumerated them, for White and *)
(* for Black to move.                                                      *)
(***************************************************************************)
enumerationIndex(game, move) ==
  CHOOSE k \in 1..Len(legalMoves(game)) : legalMoves(game)[k] = move

C16_TiesKeepEnumerationOrder ==
  Returned("findTopMoves") =>
    \A i, j \in 1..Len(result.list) :
      (i < j /\ result.list[i].evaluation = result.list[j].evaluation) =>
        enumerationIndex(heap[1], result.list[i].move)
          < enumerationIndex(heap[1], result.list[j].move)

\* findTopMoves has returned two moves of equal evaluation that the sort has
\* moved in front of a move enumerated before them
C16_Witness ==
  /\ Returned("findTopMoves")
  /\ \E i \in 1..Len(result.list) - 1 :
       /\ result.list[i].evaluation = result.list[i + 1].evaluation
       /\ enumerationIndex(heap[1], result.list[i].move) > i


(***************************************************************************)
(* C17: every child is explored on a copy of its own, equal to the         *)
(* position of its node with exactly the one move applied; no move made    *)
(* while a sibling or a descendant is explored shows in the position of    *)
(* the node or of another sibling.                                         *)
(***************************************************************************)
\* the object and the move list of level i of the running search: level 0 is
\* the root loop, level i the i-th minimax frame
levelGame(i) == IF i = 0 THEN 1 ELSE stack[i].game

levelMoves(i) == IF i = 0 THEN root.moves ELSE stack[i].moves

levelMove(i) == IF i = 0 THEN root.moves[root.idx] ELSE stack[i].moves[stack[i].idx]

\* the move list of level i is still the list of the position its object holds
levelUntouched(i) ==
  LET moves == legalMoves(heap[levelGame(i)]) IN
  IF i = 0
    THEN root.moves = (IF root.api = "findBestMove"
                         THEN arraySort(moves, "root", root.engine) ELSE moves)
    ELSE \/ stack[i].at = "entry"
         \/ stack[i].moves = <<>>
         \/ stack[i].moves = arraySort(moves, "minimax", "v8")

C17_ChildrenOnPrivateCopies ==
  pc = "root" =>
    /\ \A i \in 0..Len(stack) : levelUntouched(i)
    /\ \A i \in 1..Len(stack) :
         /\ \A j \in 0..Len(stack) : j # i => levelGame(j) # levelGame(i)
         /\ heap[levelGame(i)] =
              makeMove(Chess(fen(heap[levelGame(i - 1)])), levelMove(i - 1))

\* a second child is being explored below a second child, after whole subtrees
\* of earlier siblings were explored and left
C17_Witness ==
  /\ pc = "root"
  /\ Len(stack) = MaxDepth
  /\ root.idx >= 2
  /\ \A i \in 1..Len(stack) - 1 : stack[i].idx >= 2
  /\ Top.at = "return"


(***************************************************************************)
(* C18: at a maximizing node alpha is max(alpha, running maximum) after    *)
(* each child, at a minimizing node beta is min(beta, running minimum);    *)
(* the loop stops as soon as beta <= alpha and explores no sibling after   *)
(* that; a node's window goes down to its later children and comes back to *)
(* its parent through the returned value only.                             *)
(***************************************************************************)
\* the window level i was called with is the window its caller holds
passedAlpha(i) == IF i = 1 THEN 0 - Infinity ELSE stack[i - 1].alpha

passedBeta(i) == IF i = 1 THEN Infinity ELSE stack[i - 1].beta

windowRule(i) ==
  LET f == stack[i] IN
  IF f.at = "entry" \/ f.moves = <<>>
    THEN f.alpha = passedAlpha(i) /\ f.beta = passedBeta(i)
    ELSE /\ IF f.isMaximizingPlayer
              THEN f.alpha = Max(passedAlpha(i), f.best) /\ f.beta = passedBeta(i)
              ELSE f.alpha = passedAlpha(i) /\ f.beta = Min(passedBeta(i), f.best)
         /\ f.at = "loop" => f.alpha < f.beta
         /\ (f.at = "return" /\ f.idx < Len(f.moves)) => f.beta <= f.alpha
         /\ f.at = "return" => f.value = f.best

windowStep ==
  /\ \A i \in 1..Len(stack) : i < Len(stack) /\ i < Len(stack') => stack'[i] = stack[i]
  /\ Len(stack') = Len(stack) + 1 =>
       /\ stack'[Len(stack')].alpha = (IF stack = <<>> THEN 0 - Infinity ELSE Top.alpha)
       /\ stack'[Len(stack')].beta = (IF stack = <<>> THEN Infinity ELSE Top.beta)
       /\ stack # <<>> => /\ Top.alpha < Top.beta
                          /\ stack'[Len(stack)] = Top
  /\ (Len(stack') = Len(stack) - 1 /\ stack' # <<>>) =>
       LET before == stack[Len(stack')]
           after == stack'[Len(stack')]
       IN /\ after.alpha = (IF before.isMaximizingPlayer
                              THEN Max(before.alpha, Top.value) ELSE before.alpha)
          /\ after.beta = (IF before.isMaximizingPlayer
                             THEN before.beta ELSE Min(before.beta, Top.value))

C18_CutoffRule ==
  /\ [](\A i \in 1..Len(stack) : windowRule(i))
  /\ [][windowStep]_vars

\* a loop has stopped on beta <= alpha with siblings left unexplored
C18_Witness ==
  /\ pc = "root"
  /\ stack # <<>>
  /\ Top.at = "return"
  /\ Top.moves # <<>>
  /\ Top.idx < Len(Top.moves)
  /\ Top.beta <= Top.alpha
  /\ ~Top.isMaximizingPlayer


(***************************************************************************)
(* C20: inside minimax every capturing move is explored before every       *)
(* non-capturing move, and among the captures and among the non-captures   *)
(* the order of game.moves() is kept; the loop takes the moves one by one  *)
(* in that order.                                                          *)
(***************************************************************************)
RECURSIVE movesWhere(_, _)
movesWhere(moves, capturing) ==
  IF moves = <<>> THEN <<>>
  ELSE IF isCapture(Head(moves)) = capturing
    THEN <<Head(moves)>> \o movesWhere(Tail(moves), capturing)
    ELSE movesWhere(Tail(moves), capturing)

exploredCaptureFirst(i) ==
  LET f == stack[i]
      moves == legalMoves(heap[f.game])
  IN (f.at # "entry" /\ f.moves # <<>>) =>
       /\ f.moves = movesWhere(moves, TRUE) \o movesWhere(moves, FALSE)
       /\ f.idx \in 1..Len(f.moves)
       /\ i < Len(stack) =>
            heap[stack[i + 1].game].history = <<f.moves[f.idx]>>

oneByOne ==
  \A i \in 1..Len(stack) :
    i <= Len(stack') =>
      \/ stack'[i].idx = stack[i].idx
      \/ stack'[i].idx = stack[i].idx + 1
      \/ stack'[i].at = "entry"

C20_CaptureFirstStable ==
  /\ [](\A i \in 1..Len(stack) : exploredCaptureFirst(i))
  /\ [][oneByOne]_vars

\* a loop has passed its capture, which game.moves() had not put first, and is
\* among several non-captures
C20_Witness ==
  /\ pc = "root"
  /\ stack # <<>>
  /\ Top.at = "loop"
  /\ Top.idx >= 3
  /\ isCapture(Top.moves[1])
  /\ ~isCapture(legalMoves(heap[Top.game])[1])
  /\ Len(movesWhere(Top.moves, FALSE)) >= 2


(***************************************************************************)
(* C21: when the root loop of findBestMove starts, its move list holds     *)
(* every legal move once, every capturing move before every non-capturing  *)
(* move, and bestMove is the first move of that list.                      *)
(***************************************************************************)
occurrences(moves, m) == Cardinality({i \in 1..Len(moves) : moves[i] = m})

sameMoves(a, b) ==
  /\ Len(a) = Len(b)
  /\ \A i \in 1..Len(a) : occurrences(a, a[i]) = occurrences(b, a[i])

rootLoopStarts ==
  /\ pc = "root"
  /\ root.api = "findBestMove"
  /\ root.idx = 1
  /\ stack = <<>>

C21_RootOrderCaptureFirst ==
  /\ (pc = "root" /\ root.api = "findBestMove") =>
       /\ sameMoves(root.moves, legalMoves(heap[1]))
       /\ \A i, j \in 1..Len(root.moves) :
            (isCapture(root.moves[i]) /\ ~isCapture(root.moves[j])) => i < j
  /\ rootLoopStarts => root.bestMove = root.moves[1]

\* the root loop starts on a list whose first move is a capture that
\* game.moves() had listed after a non-capturing move
C21_Witness ==
  /\ rootLoopStarts
  /\ isCapture(root.moves[1])
  /\ ~isCapture(legalMoves(heap[1])[1])
  /\ root.bestMove = root.moves[1]


(***************************************************************************)
(* C22: for a window alpha < beta the value r that minimax returns bounds  *)
(* the value v of the same search without pruning: r = v when r lies       *)
(* strictly inside the window, v <= r when r <= alpha, v >= r when         *)
(* r >= beta.                                                              *)
(***************************************************************************)
RECURSIVE unprunedValue(_, _, _)
unprunedValue(game, depth, isMaximizingPlayer) ==
  IF depth = 0 \/ isGameOver(game) THEN evaluateBoard(game)
  ELSE LET moves == legalMoves(game)
           values == {unprunedValue(makeMove(Chess(fen(game)), moves[i]), depth - 1,
                                    ~isMaximizingPlayer) : i \in 1..Len(moves)}
       IN IF isMaximizingPlayer THEN SetMax(values) ELSE SetMin(values)

unprunedOfCall == unprunedValue(heap[1], root.depth, root.isMaximizingPlayer)

C22_FailSoftBound ==
  (Returned("minimax") /\ root.alpha < root.beta) =>
    LET r == result.value
        v == unprunedOfCall
    IN /\ (root.alpha < r /\ r < root.beta) => r = v
       /\ r <= root.alpha => v <= r
       /\ r >= root.beta => v >= r

\* a call with a window narrower than the full one has returned a value at or
\* above beta that is a bound on, and not equal to, the unpruned value
C22_Witness ==
  /\ Returned("minimax")
  /\ root.alpha < root.beta
  /\ root.beta < Infinity
  /\ result.value >= root.beta
  /\ unprunedOfCall > result.value


(***************************************************************************)
(* C23: in a search started by findBestMove or findTopMoves every minimax  *)
(* call, at every depth, has isMaximizingPlayer true exactly when White is *)
(* to move in the position it was given; so has the root loop itself.      *)
(***************************************************************************)
flagIsSideToMove(i) ==
  stack[i].isMaximizingPlayer = (heap[stack[i].game].turn = "w")

C23_FlagIsSideToMove ==
  pc = "root" =>
    /\ root.isMaximizingPlayer = (heap[1].turn = "w")
    /\ \A i \in 1..Len(stack) : flagIsSideToMove(i)

\* findTopMoves has calls nested as deep as the bound allows, maximizing and
\* minimizing ones among them, the innermost one evaluating
C23_Witness ==
  /\ pc = "root"
  /\ root.api = "findTopMoves"
  /\ Len(stack) = MaxDepth
  /\ Top.depth = 0
  /\ \E i, j \in 1..Len(stack) :
       stack[i].isMaximizingPlayer /\ ~stack[j].isMaximizingPlayer


(***************************************************************************)
(* C24: the board with every piece's colour swapped and every piece moved  *)
(* from (row, col) to (7 - row, col) evaluates to the negated evaluation;  *)
(* the standard starting position is its own image and evaluates to 0.     *)
(***************************************************************************)
colorMirror(game) ==
  [game EXCEPT !.board =
     [s \in 0..63 |->
        LET piece == game.board[Sq(7 - RowOf(s), ColOf(s))] IN
        IF piece = Null THEN Null ELSE Pc(swapColor(piece.color), piece.type)]]

C24_ColorMirrorNegates ==
  /\ Returned("evaluate") =>
       /\ evaluateBoard(colorMirror(heap[1])) = 0 - result.evaluation
       /\ colorMirror(colorMirror(heap[1])).board = heap[1].board
  /\ colorMirror(StartingPosition).board = StartingPosition.board
  /\ evaluateBoard(StartingPosition) = 0

\* a board of pieces of different kinds and colours off the mirror squares of
\* each other, with an evaluation other than 0, has been evaluated
C24_Witness ==
  /\ Returned("evaluate")
  /\ result.evaluation # 0
  /\ colorMirror(heap[1]).board # heap[1].board
  /\ \E s, t \in piecesOn(heap[1].board) :
       /\ heap[1].board[s].color # heap[1].board[t].color
       /\ heap[1].board[s].type # heap[1].board[t].type
       /\ RowOf(s) # 7 - RowOf(t)


(***************************************************************************)
(* C25: on a position with a legal move, for every depth >= 1, the         *)
(* evaluation findBestMove returns equals the evaluation of the first      *)
(* entry of findTopMoves(game, depth, 1), whatever the engine's order of   *)
(* the root moves; the moves of the two may differ.                        *)
(***************************************************************************)
C25_EntryPointsAgree ==
  /\ (Returned("findBestMove") /\ legalMoves(heap[1]) # <<>>) =>
       LET top == findTopMoves(heap[1], root.depth, 1) IN
       /\ result = findBestMove(heap[1], root.depth, root.engine)
       /\ Len(top) = 1
       /\ result.evaluation = top[1].evaluation
  /\ (Returned("findTopMoves") /\ legalMoves(heap[1]) # <<>> /\ root.count = 1) =>
       /\ result.list = findTopMoves(heap[1], root.depth, 1)
       /\ \A engine \in SortEngines :
            result.list[1].evaluation =
              findBestMove(heap[1], root.depth, engine).evaluation

\* findBestMove has returned, from a search as deep as the bound allows, a move
\* other than the first entry of findTopMoves
C25_Witness ==
  /\ Returned("findBestMove")
  /\ root.depth = MaxDepth
  /\ legalMoves(heap[1]) # <<>>
  /\ result.bestMove # findTopMoves(heap[1], root.depth, 1)[1].move


(***************************************************************************)
(* C26: executeMove sets the reply timer only when the game is not over    *)
(* after the player's move; the timer calls findBestMove only on a         *)
(* position with Black to move and the game not over; a timer that does    *)
(* not search stores nothing and leaves the game state as it is, and a     *)
(* timer that stores, stores the searched position with one move of Black  *)
(* made in it.                                                             *)
(***************************************************************************)
blackToPlay(game) == game.turn = "b" /\ ~isGameOver(game)

madeOneMove(before, after) ==
  \E i \in 1..Len(legalMoves(before)) :
    fen(makeMove(Chess(fen(before)), legalMoves(before)[i])) = fen(after)

timerRan == Len(hook'.timers) < Len(hook.timers)

timerRule ==
  timerRan =>
    /\ hook'.fired.searched = (hook'.fired.kind = "reply" /\ blackToPlay(hook'.fired.position))
    /\ ~hook'.fired.stored => hook'.game = hook.game
    /\ hook'.fired.stored =>
         /\ hook'.fired.searched
         /\ madeOneMove(hook'.fired.position, hook'.game)

C26_ReplyOnlyForBlack ==
  /\ [](\A i \in 1..Len(hook.timers) :
          IF hook.timers[i].kind = "reply"
            THEN ~isGameOver(hook.timers[i].playerMoveGame)
            ELSE isGameOver(hook.timers[i].playerMoveGame))
  /\ [](hook.fired # NoFire =>
          /\ hook.fired.searched => blackToPlay(hook.fired.position)
          /\ hook.fired.stored => hook.fired.searched)
  /\ [][timerRule]_vars

\* the reply timer of a move of Black has run: no search, nothing stored, the
\* game state still the position after that move
C26_Witness ==
  /\ hook.fired # NoFire
  /\ hook.fired.kind = "reply"
  /\ hook.fired.position.turn = "w"
  /\ ~hook.fired.searched
  /\ fen(hook.game) = fen(hook.fired.position)
  /\ hook.timers = <<>>

(***************************************************************************)
(* C27 (as stated): under any interleaving of executeMove calls and reply  *)
(* timers, every position stored as the game state is the position stored  *)
(* before it with exactly one more move made.                              *)
(***************************************************************************)
storedExtends == hook'.game # hook.game => madeOneMove(hook.game, hook'.game)

C27_StoredPositionExtends == [][storedExtends]_vars


(***************************************************************************)
(* C28: every chunk of non-zero length handed to addPCM16, and no other,   *)
(* is started or still waiting at an await; sources are started in the     *)
(* order their chunks were added; a source is started at                   *)
(* max(nextStartTime, currentTime) and nextStartTime is then that time     *)
(* plus the duration of its chunk; it never starts before the source       *)
(* started before it is over, and starts exactly when that one is over     *)
(* unless that moment is already in the past.                              *)
(***************************************************************************)
playedUntil(source) ==
  IF source.stoppedAt = -1
    THEN source.at + source.duration
    ELSE Min(source.at + source.duration, source.stoppedAt)

startedInOrder ==
  LET s == streamer.started
  IN /\ \A i \in 1..Len(s) :
          /\ streamer.added[s[i].id] # 0
          /\ s[i].duration = duration(streamer.added[s[i].id])
          /\ s[i].duration > 0
     /\ \A i \in 1..(Len(s) - 1) : s[i].id < s[i + 1].id
     /\ \A i \in 1..Len(s), j \in 1..Len(streamer.calls) : s[i].id < streamer.calls[j].id
     /\ {s[i].id : i \in 1..Len(s)} \cup {streamer.calls[j].id : j \in 1..Len(streamer.calls)}
          = {k \in 1..Len(streamer.added) : streamer.added[k] # 0}

startRule ==
  Len(streamer'.started) > Len(streamer.started) =>
    LET new == streamer'.started[Len(streamer'.started)]
    IN /\ new.at = Max(streamer.nextStartTime, streamer.currentTime)
       /\ streamer'.nextStartTime = new.at + new.duration
       /\ streamer.started # <<>> =>
            LET previous == streamer.started[Len(streamer.started)]
            IN /\ new.at >= playedUntil(previous)
               /\ playedUntil(previous) >= streamer.currentTime =>
                    new.at = playedUntil(previous)

C28_GaplessPlayback == [](startedInOrder) /\ [][startRule]_vars

\* an empty chunk was dropped and one source was started, ahead of time, at the
\* very frame the source before it ends
C28_Witness ==
  /\ \E k \in 1..Len(streamer.added) : streamer.added[k] = 0
  /\ Len(streamer.started) >= 2
  /\ streamer.started[2].at = streamer.started[1].at + streamer.started[1].duration
  /\ streamer.started[2].now < streamer.started[2].at
  /\ streamer.calls = <<>>

(***************************************************************************)
(* C29 (as stated): stop() leaves the set of tracked sources empty and     *)
(* nextStartTime 0, and no chunk handed to addPCM16 before a stop() call   *)
(* is started after it, a chunk whose addPCM16 was waiting at an await     *)
(* when stop() ran included.                                               *)
(***************************************************************************)
stopRule ==
  streamer'.stops > streamer.stops =>
    /\ streamer'.sources = {}
    /\ streamer'.nextStartTime = 0

noStartAcrossStop ==
  \A i \in 1..Len(streamer.started) :
    streamer.started[i].stopsAtStart = streamer.started[i].stops

C29_StopSilencesEarlierChunks == [](noStartAcrossStop) /\ [][stopRule]_vars


(***************************************************************************)
(* C30 (as stated): a connect() call made while the status is not          *)
(* 'disconnected' changes nothing, and from a call of disconnect() until   *)
(* the next call of connect() the status is 'disconnected' and no session  *)
(* is held, also when disconnect() was called while a connect() was        *)
(* awaiting its session.                                                   *)
(***************************************************************************)
connectRule ==
  (client'.calls > client.calls /\ client.status # "disconnected") =>
    /\ client'.status = client.status
    /\ client'.session = client.session
    /\ client'.conns = client.conns

staysDisconnected ==
  client.afterDisconnect => client.status = "disconnected" /\ client.session = 0

C30_DisconnectedUntilConnect == [](staysDisconnected) /\ [][connectRule]_vars

=============================================================================
